---- MODULE Spec2Model ----
(***************************************************************************)
(* The resilience layer of MoodleExamSimulator: the TTL cache of           *)
(* cache_manager.py (CacheItem, CacheManager, cached) and the retry        *)
(* executor of retry_manager.py (RetryError, RetryManager, with_retry).    *)
(*                                                                         *)
(* Time is an integer clock `now` (seconds for the cache).  Retry delays   *)
(* are kept in microseconds so that the +-20% jitter stays integral.       *)
(***************************************************************************)
EXTENDS Integers, Sequences, FiniteSets, TLC

(***************************************************************************)
(* Bounds of the model.                                                    *)
(***************************************************************************)
\* the clock runs from 0 to MaxTime
MaxTime == 3

\* the threads that call into the cache and the retry executor
Threads == {"t1", "t2"}

\* keys and values used by direct callers of the cache
RawKeys == {"k1", "k2"}
RawValues == {"v1", "v2"}

\* Python's None: the value get returns for "absent", and a legal value
None == "None"

\* the ttl arguments a caller passes to set; an Optional[int] is a sequence
\* of length at most one, <<>> being None (use the default)
SetTTLs == {<<>>, <<-1>>, <<0>>, <<1>>, <<2>>}

\* os.environ.get('CACHE_TTL', 3600)
DEFAULT_CACHE_TTL == 3600

\* time.sleep(60) in _cleanup_loop
SWEEP_INTERVAL == 60

\* values CACHE_TTL takes in the environment
EnvCacheTTLs == {DEFAULT_CACHE_TTL}

NoThread == "nobody"

\* the cleanup threads: the one the first Thread object made by
\* _start_cleanup_thread runs, and the one a second object would run
Sweeper == "sweeper"
Sweepers == {"sweeper", "sweeper2"}

VARIABLES
  now,          \* time.time()
  cache,        \* CacheManager._cache: a function key -> CacheItem
  order,        \* the keys of _cache in the order of the dict (the order in
                \* which they were inserted), which items() and values() follow
  lock,         \* holder of CacheManager._lock (instance lock), or NoThread
  default_ttl,  \* CacheManager._default_ttl
  running,      \* CacheManager._running
  sweepPc,      \* per cleanup thread, its position: "none" (not started),
                \* "test" (at `while self._running`), "sleep", "scan",
                \* "remove", or "done" once its loop has ended
  expired_keys, \* per cleanup thread, cleanup's local list expired_keys
                \* (the keys listed so far that are still to be deleted)
  iter,         \* per thread, the iteration over the dict it is in (the
                \* comprehension of cleanup, the sum of get_stats): i items
                \* consumed, n of them counted as expired
  locals,       \* per thread, the locals of the get or delete it is inside
                \* line by line: key, and the CacheItem get has read
  pc,           \* per thread: "idle", or the cache method it is inside
  ret,          \* the cache method that returned last: its key and result
  lastSet,      \* history: per key, the last set (value, ttl argument, time)
                \* that no delete or clear has touched since
  gone,         \* history: per key, "swept" when a cleanup pass, "cleared"
                \* when clear() removed its entry and no set or delete of
                \* the key has followed, else "no"
  mgr,          \* the RetryManager instance (its attributes)
  call,         \* the func passed to RetryManager.retry (its __name__) and
                \* the keyword overrides
  rs,           \* per thread: the locals of its running retry() call
  cached_ttl,   \* the ttl argument of the cached decorator
  w,            \* per thread: the locals of its running cached wrapper
  lastEnd,      \* history: per key, how the last finished wrapper call ended
  klass,        \* the class CacheManager: _instance, its _initialized flag,
                \* the number of Thread objects created and of cleanup
                \* threads started so far, and the attribute _cleanup_thread
                \* (the number of the object it holds, 0 for None)
  timer         \* per cleanup thread, when its time.sleep(60) is over and
                \* (history) when the pass it is in took the lock; when
                \* stop() began to wait in join(timeout=1)

sweepVars == <<running, sweepPc, expired_keys>>
retryVars == <<mgr, call, rs>>
wrapVars == <<cached_ttl, w>>
vars == <<now, cache, order, lock, default_ttl, running, sweepPc, expired_keys, iter, locals,
          pc, ret, lastSet, gone, mgr, call, rs, cached_ttl, w, lastEnd, klass, timer>>

(***************************************************************************)
(* CacheItem                                                               *)
(***************************************************************************)
\* a CacheItem whose expiry leaves the ttl out
CacheItem_NoTTL(value, ttl, t) == [value |-> value, expiry |-> t]

\* CacheItem.__init__: expiry = time.time() + ttl
CacheItem(value, ttl, t) == [value |-> value, expiry |-> t + ttl]

\* an expiry test that is one second late
is_expired_Late(item, t) == t > item.expiry + 1

\* an expiry test that is not strict
is_expired_NonStrict(item, t) == t >= item.expiry

\* CacheItem.is_expired: time.time() > self.expiry
is_expired(item, t) == t > item.expiry

(***************************************************************************)
(* dict helpers                                                            *)
(***************************************************************************)
\* del d[key]
DictDel(d, key) == [k \in (DOMAIN d) \ {key} |-> d[k]]

\* d[key] = item
DictPut(d, key, item) == [k \in (DOMAIN d) \cup {key} |-> IF k = key THEN item ELSE d[k]]

\* {}
EmptyDict == [k \in {} |-> None]

\* the order of the dict d that one operation (d[key] = item, del d[key],
\* clear()) has made of a dict whose order was o: the keys that stay keep
\* their places, a key that is new goes to the end
OrderOf(o, d) ==
  LET kept == SelectSeq(o, LAMBDA k : k \in DOMAIN d)
      new == (DOMAIN d) \ {kept[j] : j \in 1..Len(kept)}
  IN IF new = {} THEN kept ELSE Append(kept, CHOOSE k \in new : TRUE)

\* nothing returned yet
NoRet == [kind |-> "none", key |-> None, value |-> None, note |-> "none"]

\* no set of the key since it was last deleted or cleared (or ever)
NoSet == [value |-> None, ttl |-> <<>>, at |-> 0, live |-> FALSE]

\* the class once CacheManager() has been constructed: _instance is set,
\* _initialized is True and one cleanup thread has been started
Constructed ==
  [instance |-> TRUE, initialized |-> TRUE, started |-> 1, created |-> 1, thread |-> 1]

\* no cleanup thread started; the first one at position p
NoSweeper == [s \in Sweepers |-> "none"]
OneSweeper(p) == [s \in Sweepers |-> IF s = Sweeper THEN p ELSE "none"]

\* no cleanup thread has listed a key; no thread is iterating
NoKeys == [s \in Sweepers |-> {}]
NoIter == [t \in Threads \cup Sweepers |-> [i |-> 0, n |-> 0]]

\* no thread is between two lines of a get or a delete
NoItem == [t \in Threads |-> [key |-> None, value |-> None, expiry |-> 0]]

\* the timer at the start: a time.sleep(60) that is in progress is over at
\* second 0 (it began a minute before), no pass and no join has begun
NoTimer == [wake |-> [s \in Sweepers |-> 0],
            begun |-> [s \in Sweepers |-> 0], join |-> 0]

\* the timer once CacheManager() has been constructed at second 0: the
\* cleanup thread is in its first time.sleep(60)
FirstSleep == [NoTimer EXCEPT !.wake[Sweeper] = SWEEP_INTERVAL]

(***************************************************************************)
(* The clock                                                               *)
(***************************************************************************)
Tick ==
  /\ now < MaxTime
  /\ now' = now + 1
  /\ UNCHANGED <<cache, order, lock, default_ttl, running, sweepPc, expired_keys, pc, ret, lastSet, gone, retryVars, wrapVars, lastEnd, klass, timer, iter, locals>>

(***************************************************************************)
(* `with self._lock:` in the methods of CacheManager                       *)
(***************************************************************************)
\* thread t, at from, enters a `with self._lock:` block and is at to
Acquire(t, from, to) ==
  /\ pc[t] = from
  /\ lock = NoThread
  /\ lock' = t
  /\ pc' = [pc EXCEPT ![t] = to]

\* a method that returns without giving the lock up
Release_KeepLock(t, from, to, m, key, value, note) ==
  /\ pc[t] = from
  /\ lock = t
  /\ lock' = lock
  /\ pc' = [pc EXCEPT ![t] = to]
  /\ ret' = [kind |-> m, key |-> key, value |-> value, note |-> note]

\* thread t leaves the `with` block of method m, which returns value to
\* its caller, who goes on at to; the lock it gives up is the one it took,
\* which is self._lock unless __init__ has replaced that in between
Release(t, from, to, m, key, value, note) ==
  /\ pc[t] = from
  /\ lock' = IF lock = t THEN NoThread ELSE lock
  /\ pc' = [pc EXCEPT ![t] = to]
  /\ ret' = [kind |-> m, key |-> key, value |-> value, note |-> note]

\* a direct caller enters one of get, set, delete, clear
Enter(t) ==
  /\ \E m \in {"get", "set", "delete", "clear"} : Acquire(t, "idle", m)
  /\ UNCHANGED <<now, cache, order, default_ttl, running, sweepPc, expired_keys, ret, lastSet, gone, retryVars, wrapVars, lastEnd, klass, timer, iter, locals>>

(***************************************************************************)
(* CacheManager.get                                                        *)
(***************************************************************************)
\* the map get leaves behind: an expired entry of key is deleted
\* a get that gives the entry it returns a second more to live
GetCache_Refresh(d, key, t) ==
  IF key \in DOMAIN d
    THEN IF is_expired(d[key], t) THEN DictDel(d, key)
         ELSE DictPut(d, key, [value |-> d[key].value, expiry |-> d[key].expiry + 1])
    ELSE d

\* a get that drops the entry it finds, expired or not
GetCache_AlwaysEvict(d, key, t) == IF key \in DOMAIN d THEN DictDel(d, key) ELSE d

GetCache(d, key, t) ==
  IF key \in DOMAIN d /\ is_expired(d[key], t) THEN DictDel(d, key) ELSE d

\* a get that returns whatever entry it finds
GetValue_NoExpiry(d, key, t) == IF key \in DOMAIN d THEN d[key].value ELSE None

\* what get returns: None when missing or expired, else item.value
GetValue(d, key, t) ==
  IF key \in DOMAIN d
    THEN IF is_expired(d[key], t) THEN None ELSE d[key].value
    ELSE None

\* what get logs: "Cache hit", "Cache miss (expired)" or "Cache miss"
GetNote(d, key, t) ==
  IF key \in DOMAIN d
    THEN IF is_expired(d[key], t) THEN "expired" ELSE "hit"
    ELSE "miss"

Get(t, key) ==
  /\ pc[t] = "get"
  /\ cache' = GetCache(cache, key, now)
  /\ order' = OrderOf(order, cache')
  /\ Release(t, "get", "idle", "get", key, GetValue(cache, key, now), GetNote(cache, key, now))
  /\ UNCHANGED <<now, default_ttl, running, sweepPc, expired_keys, lastSet, gone, retryVars, wrapVars, lastEnd, klass, timer, iter, locals>>

(***************************************************************************)
(* CacheManager.set                                                        *)
(***************************************************************************)
\* if ttl is None: ttl = self._default_ttl
SetTTL(ttl, dflt) == IF ttl = <<>> THEN dflt ELSE ttl[1]

\* a set that adds the lifetime the old entry had left to the new ttl
SetCache_AddsRemainder(d, key, value, ttl, t) ==
  IF key \in DOMAIN d /\ d[key].expiry > t
    THEN DictPut(d, key, [value |-> value, expiry |-> d[key].expiry + ttl])
    ELSE DictPut(d, key, CacheItem(value, ttl, t))

\* a set that keeps the expiry of the entry it replaces
SetCache_KeepExpiry(d, key, value, ttl, t) ==
  IF key \in DOMAIN d THEN DictPut(d, key, [value |-> value, expiry |-> d[key].expiry])
  ELSE DictPut(d, key, CacheItem(value, ttl, t))

\* self._cache[key] = CacheItem(value, ttl)
SetCache(d, key, value, ttl, t) == DictPut(d, key, CacheItem(value, ttl, t))

\* history: what set found under the key: nothing ("set"), or an entry
\* that would have expired before ("longer"), after ("shorter") or at the
\* same time as the one that replaces it ("same")
SetNote(d, key, ttl, t) ==
  IF key \notin DOMAIN d THEN "set"
  ELSE IF d[key].expiry < t + ttl THEN "longer"
  ELSE IF d[key].expiry > t + ttl THEN "shorter"
  ELSE "same"

Set(t, key, value, ttl) ==
  /\ pc[t] = "set"
  /\ cache' = SetCache(cache, key, value, SetTTL(ttl, default_ttl), now)
  /\ order' = OrderOf(order, cache')
  /\ lastSet' = [lastSet EXCEPT ![key] =
                   [value |-> value, ttl |-> ttl, at |-> now,
                    live |-> TRUE]]
  /\ gone' = [gone EXCEPT ![key] = "no"]
  /\ Release(t, "set", "idle", "set", key, None, SetNote(cache, key, SetTTL(ttl, default_ttl), now))
  /\ UNCHANGED <<now, default_ttl, running, sweepPc, expired_keys, retryVars, wrapVars, lastEnd, klass, timer, iter, locals>>

(***************************************************************************)
(* CacheManager.delete                                                     *)
(***************************************************************************)
\* a delete that empties the map when it finds the key
DeleteCache_All(d, key) == IF key \in DOMAIN d THEN EmptyDict ELSE d

\* if key in self._cache: del self._cache[key]
DeleteCache(d, key) == IF key \in DOMAIN d THEN DictDel(d, key) ELSE d

\* a delete that answers as get would: True for an unexpired entry only
DeleteValue_AsGet(d, key) == key \in DOMAIN d /\ ~is_expired(d[key], now)

\* True if the key was found and deleted, False otherwise
DeleteValue(d, key) == key \in DOMAIN d

\* history: what delete found under the key: nothing, an expired entry or
\* an unexpired one
DeleteNote(d, key, t) ==
  IF key \in DOMAIN d
    THEN IF is_expired(d[key], t) THEN "expired" ELSE "live"
    ELSE "absent"

Delete(t, key) ==
  /\ pc[t] = "delete"
  /\ cache' = DeleteCache(cache, key)
  /\ order' = OrderOf(order, cache')
  /\ lastSet' = [lastSet EXCEPT ![key] = NoSet]
  /\ gone' = [gone EXCEPT ![key] = "no"]
  /\ Release(t, "delete", "idle", "delete", key, DeleteValue(cache, key), DeleteNote(cache, key, now))
  /\ UNCHANGED <<now, default_ttl, running, sweepPc, expired_keys, retryVars, wrapVars, lastEnd, klass, timer, iter, locals>>

(***************************************************************************)
(* CacheManager.clear                                                      *)
(***************************************************************************)
\* a clear that leaves one entry behind
ClearCache_KeepsOne(d) ==
  IF DOMAIN d = {} THEN d
  ELSE [k \in {CHOOSE k \in DOMAIN d : TRUE} |-> d[k]]

\* self._cache.clear()
ClearCache(d) == EmptyDict

Clear(t) ==
  /\ pc[t] = "clear"
  /\ cache' = ClearCache(cache)
  /\ order' = OrderOf(order, cache')
  /\ lastSet' = [k \in DOMAIN lastSet |-> NoSet]
  /\ gone' = [k \in DOMAIN gone |-> IF k \in DOMAIN cache THEN "cleared" ELSE "no"]
  /\ Release(t, "clear", "idle", "clear", None, None, "clear")
  /\ UNCHANGED <<now, default_ttl, running, sweepPc, expired_keys, retryVars, wrapVars, lastEnd, klass, timer, iter, locals>>

(***************************************************************************)
(* get and delete line by line, for the specifications in which threads    *)
(* construct CacheManager() while others are inside these methods.  A      *)
(* line finds the map as it is when the line runs: ret.note "KeyError"     *)
(* marks a call that raised KeyError(key) instead of returning, the key    *)
(* being gone from self._cache between two of its lines.                   *)
(***************************************************************************)
\* get: `if key in self._cache:`; when the key is not there, get logs a
\* miss and returns None
GetTest(t, key) ==
  /\ pc[t] = "get"
  /\ IF key \in DOMAIN cache
       THEN /\ pc' = [pc EXCEPT ![t] = "get_item"]
            /\ locals' = [locals EXCEPT ![t].key = key]
            /\ UNCHANGED <<lock, ret>>
       ELSE /\ Release(t, "get", "idle", "get", key, None, "miss")
            /\ locals' = locals
  /\ UNCHANGED <<cache, order, lastSet, gone, now, default_ttl, running, sweepPc, expired_keys, retryVars, wrapVars, lastEnd, klass, timer, iter>>

\* get: `item = self._cache[key]`, a KeyError when the key has left the
\* map since the test
GetItem(t) ==
  /\ pc[t] = "get_item"
  /\ LET key == locals[t].key IN
       IF key \in DOMAIN cache
         THEN /\ pc' = [pc EXCEPT ![t] = "get_expired"]
              /\ locals' = [locals EXCEPT ![t] = [key |-> key, value |-> cache[key].value,
                                              expiry |-> cache[key].expiry]]
              /\ UNCHANGED <<lock, ret>>
         ELSE /\ Release(t, "get_item", "idle", "get", key, None, "KeyError")
              /\ locals' = [locals EXCEPT ![t] = NoItem[t]]
  /\ UNCHANGED <<cache, order, lastSet, gone, now, default_ttl, running, sweepPc, expired_keys, retryVars, wrapVars, lastEnd, klass, timer, iter>>

\* get: `if item.is_expired():` on the item read; an item that is not
\* expired is a hit and get returns item.value
GetExpired(t) ==
  /\ pc[t] = "get_expired"
  /\ IF is_expired(locals[t], now)
       THEN /\ pc' = [pc EXCEPT ![t] = "get_del"]
            /\ UNCHANGED <<lock, ret, locals>>
       ELSE /\ Release(t, "get_expired", "idle", "get", locals[t].key, locals[t].value, "hit")
            /\ locals' = [locals EXCEPT ![t] = NoItem[t]]
  /\ UNCHANGED <<cache, order, lastSet, gone, now, default_ttl, running, sweepPc, expired_keys, retryVars, wrapVars, lastEnd, klass, timer, iter>>

\* get: `del self._cache[key]` and return None; a KeyError when the key
\* has left the map since it was read
GetDel(t) ==
  /\ pc[t] = "get_del"
  /\ LET key == locals[t].key IN
       IF key \in DOMAIN cache
         THEN /\ cache' = DictDel(cache, key)
              /\ order' = OrderOf(order, cache')
              /\ Release(t, "get_del", "idle", "get", key, None, "expired")
         ELSE /\ UNCHANGED <<cache, order>>
              /\ Release(t, "get_del", "idle", "get", key, None, "KeyError")
  /\ locals' = [locals EXCEPT ![t] = NoItem[t]]
  /\ UNCHANGED <<lastSet, gone, now, default_ttl, running, sweepPc, expired_keys, retryVars, wrapVars, lastEnd, klass, timer, iter>>

\* delete: `if key in self._cache:`; when the key is not there, delete
\* returns False
DeleteTest(t, key) ==
  /\ pc[t] = "delete"
  /\ IF key \in DOMAIN cache
       THEN /\ pc' = [pc EXCEPT ![t] = "delete_del"]
            /\ locals' = [locals EXCEPT ![t].key = key]
            /\ UNCHANGED <<lock, ret, lastSet, gone>>
       ELSE /\ Release(t, "delete", "idle", "delete", key, FALSE, "absent")
            /\ lastSet' = [lastSet EXCEPT ![key] = NoSet]
            /\ gone' = [gone EXCEPT ![key] = "no"]
            /\ locals' = locals
  /\ UNCHANGED <<cache, order, now, default_ttl, running, sweepPc, expired_keys, retryVars, wrapVars, lastEnd, klass, timer, iter>>

\* delete: `del self._cache[key]` and return True; a KeyError when the key
\* has left the map since the test
DeleteDel(t) ==
  /\ pc[t] = "delete_del"
  /\ LET key == locals[t].key IN
       IF key \in DOMAIN cache
         THEN /\ cache' = DictDel(cache, key)
              /\ order' = OrderOf(order, cache')
              /\ lastSet' = [lastSet EXCEPT ![key] = NoSet]
              /\ gone' = [gone EXCEPT ![key] = "no"]
              /\ Release(t, "delete_del", "idle", "delete", key, TRUE, DeleteNote(cache, key, now))
         ELSE /\ UNCHANGED <<cache, order, lastSet, gone>>
              /\ Release(t, "delete_del", "idle", "delete", key, FALSE, "KeyError")
  /\ locals' = [locals EXCEPT ![t] = NoItem[t]]
  /\ UNCHANGED <<now, default_ttl, running, sweepPc, expired_keys, retryVars, wrapVars, lastEnd, klass, timer, iter>>


(***************************************************************************)
(* CacheManager._cleanup_loop and cleanup (the background sweep)           *)
(***************************************************************************)
\* the keys of d whose items are expired at time t
ExpiredKeys(d, t) == {k \in DOMAIN d : is_expired(d[k], t)}

\* a comprehension that lists one expired entry at most
ScanItem_OneOnly(found, d, k, t) ==
  IF is_expired(d[k], t) /\ found = {} THEN found \cup {k} ELSE found

\* one turn of [k for k, v in self._cache.items() if v.is_expired()]: the
\* item of key k is tested against the clock as it reads at this turn
ScanItem(found, d, k, t) == IF is_expired(d[k], t) THEN found \cup {k} ELSE found

\* the key `for key in expired_keys` comes to next: the list is in the
\* order of the dict
FirstListed(o, keys) == o[CHOOSE j \in 1..Len(o) : o[j] \in keys /\ \A h \in 1..(j - 1) : o[h] \notin keys]

\* `while self._running:` in _cleanup_loop: the thread goes into
\* time.sleep(60), or the loop and the thread end
SweepLoop(s) ==
  /\ sweepPc[s] = "test"
  /\ sweepPc' = [sweepPc EXCEPT ![s] = IF running THEN "sleep" ELSE "done"]
  /\ timer' = IF running THEN [timer EXCEPT !.wake[s] = now + SWEEP_INTERVAL] ELSE timer
  /\ UNCHANGED <<now, cache, order, lock, default_ttl, running, expired_keys, iter, pc, ret, lastSet, gone, retryVars, wrapVars, lastEnd, klass, locals>>

\* time.sleep(60) is over; cleanup() enters `with self._lock:` and the
\* comprehension starts
SweepAcquire(s) ==
  /\ sweepPc[s] = "sleep"
  /\ now >= timer.wake[s]
  /\ lock = NoThread
  /\ lock' = s
  /\ sweepPc' = [sweepPc EXCEPT ![s] = "scan"]
  /\ expired_keys' = [expired_keys EXCEPT ![s] = {}]
  /\ iter' = [iter EXCEPT ![s] = [i |-> 0, n |-> 0]]
  /\ timer' = [timer EXCEPT !.begun[s] = now]
  /\ UNCHANGED <<now, cache, order, default_ttl, running, pc, ret, lastSet, gone, retryVars, wrapVars, lastEnd, klass, locals>>

\* expired_keys = [...]: the next item of the dict is tested, or, the items
\* being exhausted, the list is complete
SweepScan(s) ==
  /\ sweepPc[s] = "scan"
  /\ IF iter[s].i < Len(order)
       THEN /\ expired_keys' = [expired_keys EXCEPT ![s] =
                                  ScanItem(@, cache, order[iter[s].i + 1], now)]
            /\ iter' = [iter EXCEPT ![s].i = @ + 1]
            /\ sweepPc' = sweepPc
       ELSE /\ iter' = [iter EXCEPT ![s] = [i |-> 0, n |-> 0]]
            /\ sweepPc' = [sweepPc EXCEPT ![s] = "remove"]
            /\ expired_keys' = expired_keys
  /\ UNCHANGED <<now, cache, order, lock, default_ttl, running, pc, ret, lastSet, gone, retryVars, wrapVars, lastEnd, klass, timer, locals>>

\* for key in expired_keys: del self._cache[key]
SweepRemove(s) ==
  /\ sweepPc[s] = "remove"
  /\ expired_keys[s] # {}
  /\ LET k == FirstListed(order, expired_keys[s]) IN
       /\ cache' = DictDel(cache, k)
       /\ order' = OrderOf(order, cache')
       /\ expired_keys' = [expired_keys EXCEPT ![s] = @ \ {k}]
       /\ gone' = [gone EXCEPT ![k] = "swept"]
  /\ UNCHANGED <<now, lock, default_ttl, running, sweepPc, iter, pc, ret, lastSet, retryVars, wrapVars, lastEnd, klass, timer, locals>>

\* the for loop is done, the `with` block is left and cleanup() returns to
\* _cleanup_loop
SweepRelease(s) ==
  /\ sweepPc[s] = "remove"
  /\ expired_keys[s] = {}
  /\ lock' = IF lock = s THEN NoThread ELSE lock
  /\ sweepPc' = [sweepPc EXCEPT ![s] = "test"]
  /\ timer' = [timer EXCEPT !.begun[s] = 0]
  /\ UNCHANGED <<now, cache, order, default_ttl, running, expired_keys, iter, pc, ret, lastSet, gone, retryVars, wrapVars, lastEnd, klass, locals>>

(***************************************************************************)
(* retry_manager.py: exceptions                                            *)
(***************************************************************************)
\* the exception classes the operation raises in this model
ExcClasses == {"ConnectionError", "OSError", "ValueError", "KeyError"}

\* the classes a class is an instance of (Python's built-in hierarchy;
\* IOError is an alias of OSError)
Ancestors(cls) ==
  CASE cls = "ConnectionError" -> {"ConnectionError", "OSError", "Exception"}
    [] cls = "TimeoutError"    -> {"TimeoutError", "OSError", "Exception"}
    [] cls = "OSError"         -> {"OSError", "Exception"}
    [] cls = "ValueError"      -> {"ValueError", "Exception"}
    [] cls = "KeyError"        -> {"KeyError", "LookupError", "Exception"}
    [] OTHER                   -> {cls, "Exception"}

\* isinstance(e, exc_type)
IsInstance(e, exc_type) == exc_type \in Ancestors(e.cls)

\* last_exception = None
NoExc == [cls |-> "None", id |-> 0]

\* the exception object raised by the id-th invocation of the operation
Exc(cls, id) == [cls |-> cls, id |-> id]

\* RetryError.__init__(original_exception, attempts)
RetryError(original_exception, attempts) ==
  [cls |-> "RetryError", original_exception |-> original_exception,
   attempts |-> attempts]

\* what a call returned or raised; nothing while it runs
NoResult == [kind |-> "none", value |-> None, exc |-> NoExc]
Returned(v) == [kind |-> "return", value |-> v, exc |-> NoExc]
Raised(e) == [kind |-> "raise", value |-> None, exc |-> e]

(***************************************************************************)
(* RetryManager.__init__                                                   *)
(***************************************************************************)
\* int(os.environ.get('MAX_RETRIES', 3)), 'RETRY_DELAY', 'MAX_DELAY'
ENV_MAX_RETRIES == 3
ENV_RETRY_DELAY == 1000
ENV_MAX_DELAY == 30000

\* backoff_factor: float = 2.0
DEFAULT_BACKOFF_FACTOR == 2

\* [ConnectionError, TimeoutError, OSError, IOError]
DefaultRetryExceptions == {"ConnectionError", "TimeoutError", "OSError"}

\* an Optional argument: <<>> is None, <<x>> is x
Opt(x, dflt) == IF x = <<>> THEN dflt ELSE x[1]

\* retry_exceptions or [defaults]: None and the empty list both give the
\* defaults
RetryExceptionsOr(x) ==
  IF x = <<>> THEN DefaultRetryExceptions
  ELSE IF x[1] = {} THEN DefaultRetryExceptions ELSE x[1]

RetryManagerInit(max_retries, retry_delay, max_delay, backoff_factor, jitter, retry_exceptions) ==
  [max_retries      |-> Opt(max_retries, ENV_MAX_RETRIES),
   retry_delay      |-> Opt(retry_delay, ENV_RETRY_DELAY),
   max_delay        |-> Opt(max_delay, ENV_MAX_DELAY),
   backoff_factor   |-> backoff_factor,
   jitter           |-> jitter,
   retry_exceptions |-> RetryExceptionsOr(retry_exceptions)]

\* no RetryManager in use
NoManager == RetryManagerInit(<<>>, <<>>, <<>>, DEFAULT_BACKOFF_FACTOR, TRUE, <<>>)

\* the __name__ of the callables passed as func: an Optional, <<>> for a
\* callable that has no such attribute
FuncNames == {<<>>, <<"op">>}

\* retry(func) with no keyword override, func being a function
NoCall == [func_name |-> <<"op">>, max_retries |-> <<>>, retry_delay |-> <<>>,
           retry_exceptions |-> <<>>]

(***************************************************************************)
(* RetryManager.retry                                                      *)
(***************************************************************************)
\* actual_max_retries, actual_retry_delay, actual_retry_exceptions
ActualMaxRetries(m, c) == Opt(c.max_retries, m.max_retries)
ActualRetryDelay(m, c) == Opt(c.retry_delay, m.retry_delay)
ActualRetryExceptions(m, c) == Opt(c.retry_exceptions, m.retry_exceptions)

\* any(isinstance(e, exc_type) for exc_type in actual_retry_exceptions)
Retryable(e, excs) == \E x \in excs : IsInstance(e, x)

RECURSIVE Pow(_, _)
\* b ** n for n >= 0
Pow(b, n) == IF n <= 0 THEN 1 ELSE b * Pow(b, n - 1)

Min(a, b) == IF a <= b THEN a ELSE b

\* a cap at twice max_delay
DelayMs_LooseCap(m, c, attempts) ==
  Min(ActualRetryDelay(m, c) * Pow(m.backoff_factor, attempts - 1), 2 * m.max_delay)

\* delay_ms = min(actual_retry_delay * backoff_factor ** (attempts - 1),
\*                self.max_delay)
DelayMs(m, c, attempts) ==
  Min(ActualRetryDelay(m, c) * Pow(m.backoff_factor, attempts - 1), m.max_delay)

\* the values random.uniform(-0.2, 0.2) takes here, in thousandths
JitterChoices == {-200, 0, 200}

\* a jitter whose spread grows with the attempt number
DelayUs_GrowingJitter(m, c, attempts, u) ==
  IF m.jitter THEN DelayMs(m, c, attempts) * (1000 + u * attempts)
  ELSE DelayMs(m, c, attempts) * 1000

\* the time slept, in microseconds: delay_ms * (1 + u) with jitter, else
\* delay_ms; u in thousandths
DelayUs(m, c, attempts, u) ==
  IF m.jitter THEN DelayMs(m, c, attempts) * (1000 + u)
  ELSE DelayMs(m, c, attempts) * 1000

\* what the operation does when invoked: return a value or raise
Outcomes(values, classes) ==
  {[kind |-> "return", value |-> v, cls |-> "None"] : v \in values}
    \cup {[kind |-> "raise", value |-> None, cls |-> c] : c \in classes}

\* the operation was not invoked yet
NoOutcome == [kind |-> "none", value |-> None, cls |-> "None"]

\* the locals of retry() on entry: attempts = 0, last_exception = None;
\* history: calls counts the invocations of func, last is what the latest
\* invocation did, delays lists the sleeps
NoRetry == [attempts |-> 0, last_exception |-> NoExc, calls |-> 0,
            last |-> NoOutcome, delays |-> <<>>, result |-> NoResult,
            args |-> <<>>, kwargs |-> <<>>, received |-> <<>>]

\* func has the attribute __name__: a function has, a functools.partial
\* or a unittest.mock.MagicMock has not
HasName(c) == c.func_name # <<>>

\* the AttributeError that reading func.__name__ raises
MissingName == [cls |-> "AttributeError", id |-> 0]

\* one pass of the while loop of retry() that invokes func, which does o:
\* the locals up to the next sleep, return or raise.  Each branch of the
\* except block logs an f-string that reads func.__name__ before it
\* raises, breaks or sleeps; when func has no __name__ the AttributeError
\* of that read leaves retry() in their place
RetryAttempt(r, m, c, o, u) ==
  LET n == r.calls + 1
      e == Exc(o.cls, n)
      attempts == r.attempts + 1
      q == [r EXCEPT !.calls = n, !.last = o,
                     !.received = Append(@, [args |-> r.args, kwargs |-> r.kwargs])] IN
  IF o.kind = "return"
    THEN [q EXCEPT !.result = Returned(o.value)]
  ELSE IF ~Retryable(e, ActualRetryExceptions(m, c))
    THEN [q EXCEPT !.last_exception = e,
                   !.result = Raised(IF HasName(c) THEN e ELSE MissingName)]
  ELSE IF ~HasName(c)
    THEN [q EXCEPT !.last_exception = e, !.attempts = attempts,
                   !.result = Raised(MissingName)]
  ELSE IF attempts > ActualMaxRetries(m, c)
    THEN [q EXCEPT !.last_exception = e, !.attempts = attempts,
                   !.result = Raised(RetryError(e, attempts))]
  ELSE [q EXCEPT !.last_exception = e, !.attempts = attempts,
                 !.delays = Append(@, DelayUs(m, c, attempts, u))]

\* the while condition is false on entry: raise RetryError(None, 0)
RetryNoAttempt(r) ==
  [r EXCEPT !.result = Raised(RetryError(r.last_exception, r.attempts))]

\* the values the operation returns
OpValues == {"ok", "v2"}

\* the locals of the cached wrapper; none while no wrapper call runs
NoW == [active |-> FALSE, args |-> <<>>, kwargs |-> <<>>, cache_key |-> None, cached_value |-> None]

\* a wrapper that goes on to cache_manager.set whatever func did
AfterRetry_StoreErrors(wl, result) ==
  IF result.kind = "none" THEN "sleep"
  ELSE IF ~wl.active THEN "idle"
  ELSE "w_set"

\* where a thread goes on after a pass of the loop: into time.sleep, or
\* out of retry() -- back in the cached wrapper (result = func(...); an
\* error propagates through it) or in the direct caller
AfterRetry(wl, result) ==
  IF result.kind = "none" THEN "sleep"
  ELSE IF ~wl.active THEN "idle"
  ELSE IF result.kind = "return" THEN "w_set" ELSE "w_done"

\* the parameters of retry(self, func, *args, max_retries, retry_delay,
\* retry_exceptions, **kwargs) that have a name
RetryParams == {"self", "func", "max_retries", "retry_delay", "retry_exceptions"}

\* the names of a kwargs dict
Names(kwargs) == {kwargs[i][1] : i \in 1..Len(kwargs)}

\* retry_manager.retry(func, *args, max_retries=..., retry_delay=...,
\* retry_exceptions=..., **kwargs) binds: no keyword of the caller has the
\* name of a parameter of retry (else TypeError: multiple values)
BindsToRetry(kwargs) == Names(kwargs) \cap RetryParams = {}

\* thread t calls the wrapper of with_retry with args and kwargs: the
\* call of retry raises TypeError, or retry begins with func, args, kwargs
WithRetryWrapper(t, args, kwargs) ==
  /\ pc[t] = "idle"
  /\ IF BindsToRetry(kwargs)
       THEN /\ pc' = [pc EXCEPT ![t] = "retry"]
            /\ rs' = [rs EXCEPT ![t] = [NoRetry EXCEPT !.args = args, !.kwargs = kwargs]]
       ELSE /\ pc' = pc
            /\ rs' = [rs EXCEPT ![t] =
                        [NoRetry EXCEPT !.args = args, !.kwargs = kwargs,
                                        !.result = Raised(Exc("TypeError", 0))]]
  /\ UNCHANGED <<now, cache, order, lock, default_ttl, sweepVars, ret, lastSet, gone, mgr, call, wrapVars, lastEnd, klass, timer, iter, locals>>

\* thread t calls retry(func, ...): the locals are initialised
RetryCall(t) ==
  /\ pc[t] = "idle"
  /\ pc' = [pc EXCEPT ![t] = "retry"]
  /\ rs' = [rs EXCEPT ![t] = NoRetry]
  /\ UNCHANGED <<now, cache, order, lock, default_ttl, sweepVars, ret, lastSet, gone, mgr, call, wrapVars, lastEnd, klass, timer, iter, locals>>

\* a loop whose attempt counter is kept on the manager, for all callers
RetryLoop_SharedCounter(t, o, u) ==
  /\ pc[t] = "retry"
  /\ LET r == IF rs[t].attempts <= ActualMaxRetries(mgr, call)
                THEN RetryAttempt(rs[t], mgr, call, o, u)
                ELSE RetryNoAttempt(rs[t]) IN
       /\ rs' = [x \in Threads |->
                   IF x = t THEN r ELSE [rs[x] EXCEPT !.attempts = r.attempts]]
       /\ pc' = [pc EXCEPT ![t] = AfterRetry(w[t], r.result)]
  /\ UNCHANGED <<now, cache, order, lock, default_ttl, sweepVars, ret, lastSet, gone, mgr, call, wrapVars, lastEnd, klass, timer, iter, locals>>

\* the while loop: test the condition, invoke func, handle what it raises
RetryLoop(t, o, u) ==
  /\ pc[t] = "retry"
  /\ LET r == IF rs[t].attempts <= ActualMaxRetries(mgr, call)
                THEN RetryAttempt(rs[t], mgr, call, o, u)
                ELSE RetryNoAttempt(rs[t]) IN
       /\ rs' = [rs EXCEPT ![t] = r]
       /\ pc' = [pc EXCEPT ![t] = AfterRetry(w[t], r.result)]
  /\ UNCHANGED <<now, cache, order, lock, default_ttl, sweepVars, ret, lastSet, gone, mgr, call, wrapVars, lastEnd, klass, timer, iter, locals>>

\* time.sleep(delay_sec) returns
RetryWake(t) ==
  /\ pc[t] = "sleep"
  /\ pc' = [pc EXCEPT ![t] = "retry"]
  /\ UNCHANGED <<now, cache, order, lock, default_ttl, sweepVars, ret, lastSet, gone, retryVars, wrapVars, lastEnd, klass, timer, iter, locals>>

(***************************************************************************)
(* One RetryManager, one caller of retry()                                 *)
(***************************************************************************)
\* the constructor arguments and keyword overrides tried
CtorMaxRetries == {<<>>, <<-1>>, <<0>>, <<2>>, <<4>>}
CtorRetryDelay == {<<>>, <<100>>}
CtorMaxDelay == {<<>>, <<300>>}
CtorBackoff == {DEFAULT_BACKOFF_FACTOR, 3}
CtorRetryExceptions == {<<>>, <<{}>>, <<{"KeyError"}>>}
CallMaxRetries == {<<>>, <<1>>}
CallRetryDelay == {<<>>, <<10>>}
CallRetryExceptions == {<<>>, <<{}>>}

RetryCaller == "t1"

InitRetry ==
  /\ now = 0
  /\ cache = EmptyDict
  /\ order = <<>>
  /\ lock = NoThread
  /\ default_ttl = DEFAULT_CACHE_TTL
  /\ running = TRUE
  /\ sweepPc = OneSweeper("sleep")
  /\ expired_keys = NoKeys
  /\ iter = NoIter
  /\ locals = NoItem
  /\ pc = [t \in Threads |-> "idle"]
  /\ ret = NoRet
  /\ lastSet = [k \in RawKeys |-> NoSet]
  /\ gone = [k \in RawKeys |-> "no"]
  /\ \E mr \in CtorMaxRetries, rd \in CtorRetryDelay, md \in CtorMaxDelay,
        bf \in CtorBackoff, j \in BOOLEAN, re \in CtorRetryExceptions :
       mgr = RetryManagerInit(mr, rd, md, bf, j, re)
  /\ call \in [func_name : FuncNames, max_retries : CallMaxRetries,
               retry_delay : CallRetryDelay, retry_exceptions : CallRetryExceptions]
  /\ rs = [t \in Threads |-> NoRetry]
  /\ cached_ttl = <<>>
  /\ w = [t \in Threads |-> NoW]
  /\ lastEnd = [k \in RawKeys |-> "none"]
  /\ klass = Constructed
  /\ timer = FirstSleep

NextRetry ==
  \/ RetryCall(RetryCaller)
  \/ \E o \in Outcomes(OpValues, ExcClasses), u \in JitterChoices : RetryLoop(RetryCaller, o, u)
  \/ RetryWake(RetryCaller)

SpecRetry == InitRetry /\ [][NextRetry]_vars

(***************************************************************************)
(* Properties of RetryManager.retry                                        *)
(***************************************************************************)
\* the retryable classes of the running call: the override if given, else
\* the manager's
RetryClasses ==
  IF call.retry_exceptions # <<>> THEN call.retry_exceptions[1]
  ELSE mgr.retry_exceptions

\* the class is an instance of some retryable class
IsRetryableClass(cls) == Ancestors(cls) \cap RetryClasses # {}

\* max_retries and retry_delay of the running call
MaxRetries == IF call.max_retries # <<>> THEN call.max_retries[1] ELSE mgr.max_retries
RetryDelay == IF call.retry_delay # <<>> THEN call.retry_delay[1] ELSE mgr.retry_delay

\* the latest invocation of t's operation raised an error of a class that
\* is / is not retryable
FailedRetryable(t) == rs[t].last.kind = "raise" /\ IsRetryableClass(rs[t].last.cls)
FailedTerminal(t) == rs[t].last.kind = "raise" /\ ~IsRetryableClass(rs[t].last.cls)

\* C4: when an invocation raises an error that is an instance of no
\* retryable class, retry ends at once raising that very error (not a
\* RetryError): no invocation follows and no delay follows that failure,
\* on the first invocation and after earlier retryable failures alike.
C4_NonRetryableReraised ==
  \A t \in Threads : FailedTerminal(t) =>
    /\ pc[t] = "idle"
    /\ rs[t].result = Raised(Exc(rs[t].last.cls, rs[t].calls))
    /\ Len(rs[t].delays) = rs[t].calls - 1

\* C5: with 0 <= N <= max_retries, after N invocations that all raised a
\* retryable error retry goes on (N delays so far, one after each
\* failure, none before the first invocation), and when invocation N+1
\* returns a value retry returns that value, with N+1 invocations and N
\* delays in all.
C5_SuccessAfterFailures ==
  \A t \in Threads :
    /\ rs[t].calls = 0 => rs[t].delays = <<>>
    /\ (FailedRetryable(t) /\ rs[t].calls <= MaxRetries)
         => (pc[t] \in {"sleep", "retry"} /\ rs[t].result.kind = "none"
               /\ Len(rs[t].delays) = rs[t].calls)
    /\ rs[t].last.kind = "return"
         => (pc[t] = "idle" /\ rs[t].result = Returned(rs[t].last.value)
               /\ Len(rs[t].delays) = rs[t].calls - 1
               /\ rs[t].calls - 1 <= MaxRetries)

\* C6: for max_retries >= 0, when max_retries+1 invocations each raised a
\* retryable error, retry raises RetryError with attempts = max_retries+1
\* and original_exception the error of the last invocation; an error of a
\* retryable class never reaches the caller unwrapped.
C6_RetryErrorOnExhaustion ==
  \A t \in Threads :
    /\ (MaxRetries >= 0 /\ FailedRetryable(t) /\ rs[t].calls = MaxRetries + 1)
         => (pc[t] = "idle"
               /\ rs[t].result = Raised(RetryError(Exc(rs[t].last.cls, rs[t].calls),
                                                    MaxRetries + 1)))
    /\ (rs[t].result.kind = "raise" /\ rs[t].result.exc.cls # "RetryError")
         => ~IsRetryableClass(rs[t].result.exc.cls)

\* min(retry_delay * backoff_factor^(k-1), max_delay), in microseconds
CappedDelayUs(k) ==
  LET d == RetryDelay * Pow(mgr.backoff_factor, k - 1) IN
    1000 * (IF d <= mgr.max_delay THEN d ELSE mgr.max_delay)

\* C7: with jitter off, the k-th delay of a call is
\* min(retry_delay * backoff_factor^(k-1), max_delay) ms, in that order;
\* when every invocation failed with a retryable error (max_retries >= 0)
\* and the call has ended, there have been exactly max_retries delays,
\* none after the final failure.
C7_BackoffDelays ==
  \A t \in Threads : ~mgr.jitter =>
    /\ \A k \in 1..Len(rs[t].delays) : rs[t].delays[k] = CappedDelayUs(k)
    /\ (MaxRetries >= 0 /\ rs[t].result.kind = "raise" /\ FailedRetryable(t))
         => Len(rs[t].delays) = MaxRetries

(***************************************************************************)
(* The cache used directly by several threads                              *)
(***************************************************************************)
\* the cache at second 0, the cleanup thread being in a sleep that ends at
\* second wake
InitCacheAt(wake) ==
  /\ now = 0
  /\ cache = EmptyDict
  /\ order = <<>>
  /\ lock = NoThread
  /\ default_ttl \in EnvCacheTTLs
  /\ running = TRUE
  /\ sweepPc = OneSweeper("sleep")
  /\ expired_keys = NoKeys
  /\ iter = NoIter
  /\ locals = NoItem
  /\ pc = [t \in Threads |-> "idle"]
  /\ ret = NoRet
  /\ lastSet = [k \in RawKeys |-> NoSet]
  /\ gone = [k \in RawKeys |-> "no"]
  /\ mgr = NoManager
  /\ call = NoCall
  /\ rs = [t \in Threads |-> NoRetry]
  /\ cached_ttl = <<>>
  /\ w = [t \in Threads |-> NoW]
  /\ lastEnd = [k \in RawKeys |-> "none"]
  /\ klass = Constructed
  /\ timer = [NoTimer EXCEPT !.wake[Sweeper] = wake]

\* CacheManager() has just been constructed
InitCache == InitCacheAt(SWEEP_INTERVAL)

\* CacheManager() was constructed a minute ago and nothing has been set
\* since: the first sleep of the cleanup thread is over
InitWoken == InitCacheAt(0)

\* the clock stays below SWEEP_INTERVAL: the cleanup thread is asleep
NextCache ==
  \/ Tick
  \/ \E t \in Threads : Enter(t)
  \/ \E t \in Threads, k \in RawKeys : Get(t, k)
  \/ \E t \in Threads, k \in RawKeys, v \in RawValues, ttl \in SetTTLs : Set(t, k, v, ttl)
  \/ \E t \in Threads, k \in RawKeys : Delete(t, k)
  \/ \E t \in Threads : Clear(t)

SpecCache == InitCache /\ [][NextCache]_vars

(***************************************************************************)
(* Properties of get and set under interleaving                            *)
(***************************************************************************)
\* the step in which thread t's get returns (key and result are in ret')
GetStep(t) == pc[t] = "get" /\ pc'[t] = "idle"

\* the ttl in force for the last set of key k
LastTTL(k) == IF lastSet[k].ttl = <<>> THEN default_ttl ELSE lastSet[k].ttl[1]

\* C1: whatever the interleaving of get, set, delete, clear, the sweep and
\* the clock, a get(K) that finds K missing or expired (now > expiry) at
\* its read returns None and leaves K out of the map; a value it returns
\* is the value of an entry of K that is not expired at the read.
C1_GetNeverReturnsExpired ==
  [][\A t \in Threads : GetStep(t) =>
       LET K == ret'.key IN
         /\ (K \notin DOMAIN cache \/ now > cache[K].expiry)
              => (ret'.value = None /\ K \notin DOMAIN cache')
         /\ ret'.value # None
              => (K \in DOMAIN cache /\ ~(now > cache[K].expiry)
                    /\ ret'.value = cache[K].value)]_vars

\* a get has just found its key expired, returned None and evicted it,
\* after a cleanup pass that had removed the expired entry of the other
\* key and left this one, not yet expired, in the map
C1_Witness ==
  /\ ret.kind = "get" /\ ret.note = "expired" /\ ret.value = None
  /\ ret.key \notin DOMAIN cache
  /\ lastSet[ret.key].live /\ now > lastSet[ret.key].at + LastTTL(ret.key)
  /\ \E k \in RawKeys \ {ret.key} : gone[k] = "swept"

\* a get has returned the value of an entry that is not expired, after a
\* cleanup pass that had removed the expired entry of the other key
C1_WitnessHit ==
  /\ ret.kind = "get" /\ ret.note = "hit" /\ ret.value # None
  /\ \E k \in RawKeys \ {ret.key} : gone[k] = "swept"
  /\ ret.key \in DOMAIN cache /\ ~is_expired(cache[ret.key], now)

\* C2: a get(K) after set(K,V,T), T > 0 (T = default_ttl when no ttl was
\* given), with less than T elapsed and no set, delete or clear of K in
\* between, returns V.
C2_GetAfterSet ==
  [][\A t \in Threads : GetStep(t) =>
       LET K == ret'.key IN
         (lastSet[K].live /\ LastTTL(K) > 0 /\ now - lastSet[K].at < LastTTL(K))
           => ret'.value = lastSet[K].value]_vars

\* a get has returned the value set earlier, with time elapsed since the set
C2_Witness ==
  /\ ret.kind = "get" /\ ret.note = "hit"
  /\ lastSet[ret.key].live /\ ret.value = lastSet[ret.key].value
  /\ now > lastSet[ret.key].at
  /\ now - lastSet[ret.key].at < LastTTL(ret.key)

\* a get has returned the value of a set made without a ttl
C2_WitnessDefault ==
  /\ ret.kind = "get" /\ ret.note = "hit"
  /\ lastSet[ret.key].live /\ lastSet[ret.key].ttl = <<>>
  /\ ret.value = lastSet[ret.key].value

\* C3: a get(K) issued more than T seconds after the last set(K,V,T)
\* returns None, whether or not a sweep removed the entry before.
C3_GetAfterTTL ==
  [][\A t \in Threads : GetStep(t) =>
       LET K == ret'.key IN
         (lastSet[K].live /\ now - lastSet[K].at > LastTTL(K))
           => ret'.value = None]_vars

\* a get returned None for a key set with ttl > 0 more than ttl ago, a
\* cleanup pass having removed the entry in between
C3_Witness ==
  /\ ret.kind = "get" /\ ret.note = "miss" /\ ret.value = None
  /\ lastSet[ret.key].live /\ LastTTL(ret.key) > 0
  /\ now - lastSet[ret.key].at > LastTTL(ret.key)
  /\ gone[ret.key] = "swept"

\* the same with the entry still in the map: no sweep had removed it, the
\* cleanup thread being in its sleep (SpecCache) or yet to make its pass
C3_WitnessNoSweep ==
  /\ ret.kind = "get" /\ ret.note = "expired" /\ ret.value = None
  /\ lastSet[ret.key].live /\ LastTTL(ret.key) > 0
  /\ now - lastSet[ret.key].at > LastTTL(ret.key)
  /\ \A k \in RawKeys : gone[k] = "no"
  /\ sweepPc[Sweeper] = "sleep" /\ timer.wake[Sweeper] = 0

\* the same after an earlier get had already removed the entry
C3_WitnessEvicted ==
  /\ ret.kind = "get" /\ ret.note = "miss" /\ ret.value = None
  /\ lastSet[ret.key].live /\ LastTTL(ret.key) > 0
  /\ now - lastSet[ret.key].at > LastTTL(ret.key)
  /\ gone[ret.key] = "no"


(***************************************************************************)
(* cache_manager.py: the cached decorator                                  *)
(***************************************************************************)
\* an argument of the decorated function: its type and what str() makes of it
IntArg(text) == [type |-> "int", text |-> text]
StrArg(text) == [type |-> "str", text |-> text]
ObjArg(text) == [type |-> "object", text |-> text]

\* str(arg)
Str(arg) == arg.text

\* sep.join(parts)
RECURSIVE Join(_, _)
Join(parts, sep) ==
  IF parts = <<>> THEN ""
  ELSE IF Len(parts) = 1 THEN parts[1]
  ELSE parts[1] \o sep \o Join(Tail(parts), sep)

\* hashlib.md5(s.encode()).hexdigest(): one digest per string
md5(s) == "md5(" \o s \o ")"

\* the keyword names in use, in the order sorted() puts them
KwNames == <<"x", "y">>

\* sorted(kwargs.items()): kwargs is the sequence of <<name, value>> pairs
\* in the order of the call, each name at most once
RECURSIVE SortedItems(_, _)
SortedItems(kwargs, names) ==
  IF names = <<>> THEN <<>>
  ELSE SelectSeq(kwargs, LAMBDA item : item[1] = Head(names))
         \o SortedItems(kwargs, Tail(names))

\* the default key: module, name, the str() of each positional argument
\* and f"{k}:{v}" of each keyword argument, sorted
KeyParts(module, name, args, kwargs) ==
  <<module, name>> \o [i \in 1..Len(args) |-> Str(args[i])]
    \o [i \in 1..Len(kwargs) |->
          SortedItems(kwargs, KwNames)[i][1] \o ":" \o Str(SortedItems(kwargs, KwNames)[i][2])]

CacheKey(module, name, args, kwargs) ==
  md5(Join(KeyParts(module, name, args, kwargs), ":"))

\* the decorated function
FuncModule == "supabase_client"
FuncName == "get_user"

\* `if cached_value is not None: return cached_value`, else call the function
WAfterGet_NeverServe(cached_value) == "retry"

WAfterGet(cached_value) == IF cached_value # None THEN "w_done" ELSE "retry"

\* what the wrapper hands to its caller: the cached value, or what func did
WResult(wl, r) ==
  IF wl.cached_value # None THEN Returned(wl.cached_value) ELSE r.result

\* thread t calls the decorated function: the key is generated; func is the
\* with_retry wrapper, whose retry() starts from fresh locals when called
WCall(t, args, kwargs) ==
  /\ pc[t] = "idle"
  /\ pc' = [pc EXCEPT ![t] = "w_get"]
  /\ w' = [w EXCEPT ![t] = [active |-> TRUE, args |-> args, kwargs |-> kwargs,
                            cache_key |-> CacheKey(FuncModule, FuncName, args, kwargs),
                            cached_value |-> None]]
  /\ rs' = [rs EXCEPT ![t] = [NoRetry EXCEPT !.args = args, !.kwargs = kwargs]]
  /\ UNCHANGED <<now, cache, order, lock, default_ttl, sweepVars, ret, lastSet, gone, mgr, call, cached_ttl, lastEnd, klass, timer, iter, locals>>

\* cache_manager.get(cache_key) takes the lock
WGetEnter(t) ==
  /\ Acquire(t, "w_get", "w_get_in")
  /\ UNCHANGED <<now, cache, order, default_ttl, sweepVars, ret, lastSet, gone, retryVars, wrapVars, lastEnd, klass, timer, iter, locals>>

\* cached_value = cache_manager.get(cache_key), and the test on it
WGet(t) ==
  /\ pc[t] = "w_get_in"
  /\ LET key == w[t].cache_key
         value == GetValue(cache, key, now) IN
       /\ cache' = GetCache(cache, key, now)
       /\ order' = OrderOf(order, cache')
       /\ w' = [w EXCEPT ![t].cached_value = value]
       /\ Release(t, "w_get_in", WAfterGet(value), "get", key, value, GetNote(cache, key, now))
  /\ UNCHANGED <<now, default_ttl, sweepVars, lastSet, gone, retryVars, cached_ttl, lastEnd, klass, timer, iter, locals>>

\* cache_manager.set(cache_key, result, ttl) takes the lock
WSetEnter(t) ==
  /\ Acquire(t, "w_set", "w_set_in")
  /\ UNCHANGED <<now, cache, order, default_ttl, sweepVars, ret, lastSet, gone, retryVars, wrapVars, lastEnd, klass, timer, iter, locals>>

\* cache_manager.set(cache_key, result, ttl)
WSet(t) ==
  /\ pc[t] = "w_set_in"
  /\ LET key == w[t].cache_key
         result == rs[t].result.value IN
       /\ cache' = SetCache(cache, key, result, SetTTL(cached_ttl, default_ttl), now)
       /\ order' = OrderOf(order, cache')
       /\ lastSet' = [lastSet EXCEPT ![key] =
                        [value |-> result, ttl |-> cached_ttl, at |-> now,
                         live |-> TRUE]]
       /\ gone' = [gone EXCEPT ![key] = "no"]
       /\ Release(t, "w_set_in", "w_done", "set", key, None,
                  SetNote(cache, key, SetTTL(cached_ttl, default_ttl), now))
  /\ UNCHANGED <<now, default_ttl, sweepVars, retryVars, wrapVars, lastEnd, klass, timer, iter, locals>>

\* the wrapper returns, or the error of func leaves it
WReturn(t) ==
  /\ pc[t] = "w_done"
  /\ pc' = [pc EXCEPT ![t] = "idle"]
  /\ w' = [w EXCEPT ![t] = NoW]
  /\ rs' = [rs EXCEPT ![t] = NoRetry]
  /\ lastEnd' = [lastEnd EXCEPT ![w[t].cache_key] = WResult(w[t], rs[t]).kind]
  /\ UNCHANGED <<now, cache, order, lock, default_ttl, sweepVars, ret, lastSet, gone, mgr, call, cached_ttl, klass, timer, iter, locals>>

(***************************************************************************)
(* retry_manager.py: with_retry                                            *)
(***************************************************************************)
\* retry_manager = RetryManager(max_retries=, retry_delay=, retry_exceptions=)
WithRetryManager(max_retries, retry_delay, retry_exceptions) ==
  RetryManagerInit(max_retries, retry_delay, <<>>, DEFAULT_BACKOFF_FACTOR, TRUE, retry_exceptions)

\* retry_manager.retry(func, ..., max_retries=, retry_delay=, retry_exceptions=)
WithRetryCall(func_name, max_retries, retry_delay, retry_exceptions) ==
  [func_name |-> func_name, max_retries |-> max_retries, retry_delay |-> retry_delay,
   retry_exceptions |-> retry_exceptions]


(***************************************************************************)
(* cached(ttl)(with_retry(max_retries, retry_delay)(op)), one caller       *)
(***************************************************************************)
\* the argument lists the decorated function is called with: self, user_id
WArgLists == {<<ObjArg("<SupabaseClient>"), StrArg("u1")>>}
WKeys == {CacheKey(FuncModule, FuncName, a, <<>>) : a \in WArgLists}

\* what op may do when invoked: return a value or None, or raise
WOpValues == {"ok", None}
WExcClasses == {"ConnectionError", "ValueError"}

\* the decorator arguments tried
CachedTTLs == {<<60>>, <<1>>}
WithMaxRetries == <<3>>
WithRetryDelay == <<10>>

WCaller == "t1"

InitCachedWith(names, ttls, max_retries, retry_delay) ==
  /\ now = 0
  /\ cache = EmptyDict
  /\ order = <<>>
  /\ lock = NoThread
  /\ default_ttl = DEFAULT_CACHE_TTL
  /\ running = TRUE
  /\ sweepPc = OneSweeper("sleep")
  /\ expired_keys = NoKeys
  /\ iter = NoIter
  /\ locals = NoItem
  /\ pc = [t \in Threads |-> "idle"]
  /\ ret = NoRet
  /\ lastSet = [k \in WKeys |-> NoSet]
  /\ gone = [k \in WKeys |-> "no"]
  /\ mgr = WithRetryManager(max_retries, retry_delay, <<>>)
  /\ \E n \in names : call = WithRetryCall(n, max_retries, retry_delay, <<>>)
  /\ rs = [t \in Threads |-> NoRetry]
  /\ cached_ttl \in ttls
  /\ w = [t \in Threads |-> NoW]
  /\ lastEnd = [k \in WKeys |-> "none"]
  /\ klass = Constructed
  /\ timer = FirstSleep

InitCached == InitCachedWith(FuncNames, CachedTTLs, WithMaxRetries, WithRetryDelay)

\* the clock stays below SWEEP_INTERVAL: the cleanup thread is asleep
NextCached ==
  \/ Tick
  \/ \E a \in WArgLists : WCall(WCaller, a, <<>>)
  \/ WGetEnter(WCaller)
  \/ WGet(WCaller)
  \/ \E o \in Outcomes(WOpValues, WExcClasses), u \in JitterChoices : RetryLoop(WCaller, o, u)
  \/ RetryWake(WCaller)
  \/ WSetEnter(WCaller)
  \/ WSet(WCaller)
  \/ WReturn(WCaller)

SpecCached == InitCached /\ [][NextCached]_vars

(***************************************************************************)
(* The same composition called by several threads                          *)
(***************************************************************************)
SharedTTLs == {<<1>>}
SharedMaxRetries == <<1>>

InitShared == InitCachedWith(FuncNames, SharedTTLs, SharedMaxRetries, WithRetryDelay)

\* the clock stays below SWEEP_INTERVAL: the cleanup thread is asleep
NextShared ==
  \/ Tick
  \/ \E t \in Threads, a \in WArgLists : WCall(t, a, <<>>)
  \/ \E t \in Threads : WGetEnter(t)
  \/ \E t \in Threads : WGet(t)
  \/ \E t \in Threads, o \in Outcomes(WOpValues, WExcClasses), u \in JitterChoices : RetryLoop(t, o, u)
  \/ \E t \in Threads : RetryWake(t)
  \/ \E t \in Threads : WSetEnter(t)
  \/ \E t \in Threads : WSet(t)
  \/ \E t \in Threads : WReturn(t)

SpecShared == InitShared /\ [][NextShared]_vars


(***************************************************************************)
(* Properties of the composition                                           *)
(***************************************************************************)
\* the ttl in force for the sets of the wrapper
CachedTTL == SetTTL(cached_ttl, default_ttl)

\* the step in which the get of thread t's wrapper call returns
WGetStep(t) == pc[t] = "w_get_in" /\ pc'[t] # "w_get_in"

\* the last set of key k is still in the cache and less than ttl old
Fresh(k) == lastSet[k].live /\ now - lastSet[k].at < CachedTTL

\* thread t's wrapper call missed and its op raised a retryable error
\* twice, then returned "ok"
FailedTwiceThenOk(t) ==
  /\ w[t].active /\ w[t].cached_value = None
  /\ rs[t].calls = 3 /\ Len(rs[t].delays) = 2
  /\ rs[t].last = [kind |-> "return", value |-> "ok", cls |-> "None"]

\* the first call of C8: "ok" after 3 invocations and sleeps of 10 and 20 ms
C8_FirstCall ==
  \A t \in Threads :
    (cached_ttl = <<60>> /\ MaxRetries = 3 /\ RetryDelay = 10 /\ FailedTwiceThenOk(t))
      => /\ rs[t].result = Returned("ok")
         /\ rs[t].delays = <<10 * 1000, 20 * 1000>>

\* the second call of C8: a call whose get comes while the "ok" of the
\* first is less than 60 s old returns it, with no invocation and no sleep
C8_SecondCall ==
  \A t \in Threads :
    (/\ cached_ttl = <<60>> /\ MaxRetries = 3 /\ RetryDelay = 10
     /\ WGetStep(t) /\ Fresh(w[t].cache_key)
     /\ lastSet[w[t].cache_key].value = "ok")
      => /\ pc'[t] = "w_done"
         /\ WResult(w'[t], rs'[t]) = Returned("ok")
         /\ rs'[t].calls = 0 /\ rs'[t].delays = <<>>

\* C8: for cached(ttl=60)(with_retry(max_retries=3, retry_delay=10)(op)),
\* a first call in which op fails twice with a retryable error and then
\* returns "ok" returns "ok" after exactly 3 invocations and two sleeps of
\* exactly 10 ms and 20 ms, and a second call with the same arguments
\* within the ttl returns "ok" with no invocation and no sleep.
C8_Composition == []C8_FirstCall /\ [][C8_SecondCall]_vars

\* C9: for a function decorated with cached(ttl=T), T > 0, once a call has
\* completed with result r (None included), a call with the same arguments
\* whose get comes less than T later returns r without invoking the
\* function.
C9_CachedServesResult ==
  [][\A t \in Threads :
       (WGetStep(t) /\ CachedTTL > 0 /\ Fresh(w[t].cache_key))
         => /\ pc'[t] = "w_done"
            /\ WResult(w'[t], rs'[t]) = Returned(lastSet[w[t].cache_key].value)]_vars

\* thread t is in a wrapper call that has invoked op
Invoked(t) == w[t].active /\ rs[t].calls >= 1

\* C10, as stated: of the threads that call the decorated function with
\* the same arguments while the key is absent, only one runs op (one
\* retry sequence in total).
C10_SingleFlight ==
  \A t1, t2 \in Threads :
    (t1 # t2 /\ w[t1].cache_key = w[t2].cache_key)
      => ~(Invoked(t1) /\ Invoked(t2))

\* C10, amended: every caller runs op exactly when its own get missed
\* (key absent, expired, or holding None):
\* a caller whose get found a value returns it without invoking op, and a
\* caller whose get missed runs its own retry sequence, of between 1 and
\* max_retries + 1 invocations, whatever the other callers do.
C10_OneSequencePerMiss ==
  \A t \in Threads :
    (w[t].active /\ pc[t] \notin {"w_get", "w_get_in"})
      => IF w[t].cached_value # None
           THEN pc[t] = "w_done" /\ rs[t].calls = 0
           ELSE /\ pc[t] \in {"w_set", "w_set_in", "w_done"}
                     => (rs[t].calls >= 1 /\ rs[t].calls <= MaxRetries + 1
                          /\ rs[t].result.kind # "none")
                /\ pc[t] = "w_done" => WResult(w[t], rs[t]) = rs[t].result

\* two threads that called with the same arguments have both missed and
\* both had their own op return, and a third call is served from the cache
C10_Witness ==
  /\ pc["t1"] = "w_done" /\ pc["t2"] = "w_done"
  /\ w["t1"].cache_key = w["t2"].cache_key
  /\ w["t1"].cached_value = None /\ w["t2"].cached_value = "ok"
  /\ rs["t1"].calls = 2 /\ rs["t1"].result = Returned("ok")
  /\ rs["t2"].calls = 0

\* two threads in one wrapper call each, both having run op to its return
C10_WitnessBoth ==
  /\ pc["t1"] = "w_done" /\ pc["t2"] = "w_done"
  /\ w["t1"].cache_key = w["t2"].cache_key
  /\ w["t1"].cached_value = None /\ w["t2"].cached_value = None
  /\ rs["t1"].result = Returned("ok") /\ rs["t2"].result = Returned("ok")


\* the step in which the retry sequence of thread t's wrapper call ends
RetryEndStep(t) == w[t].active /\ pc[t] = "retry" /\ pc'[t] \notin {"retry", "sleep"}

\* thread t's wrapper call has an error to hand to its caller
EndsInError(t) == pc[t] = "w_done" /\ WResult(w[t], rs[t]).kind = "raise"

\* C11: when the operation wrapped by cached ends in an error (a
\* non-retryable error, or RetryError after exhaustion) the wrapper goes
\* to its exit without a set, the cache being left as it is; the error is
\* what the caller gets; a wrapper never reaches set with an error; and
\* the next call with the same arguments misses and invokes the operation.
C11_ErrorsNotCached ==
  [][\A t \in Threads :
       /\ (RetryEndStep(t) /\ rs'[t].result.kind = "raise")
            => /\ pc'[t] = "w_done"
               /\ cache' = cache
               /\ WResult(w'[t], rs'[t]) = rs'[t].result
       /\ pc'[t] \in {"w_set", "w_set_in"} => rs'[t].result.kind = "return"
       /\ (EndsInError(t) /\ pc'[t] # "w_done")
            => /\ pc'[t] = "idle" /\ cache' = cache
               /\ lastEnd'[w[t].cache_key] = "raise"
       /\ (WGetStep(t) /\ lastEnd[w[t].cache_key] = "raise")
            => pc'[t] = "retry"]_vars

\* a call that follows one ended by RetryError has missed and is about to
\* invoke the operation, the cache holding nothing for the key
C11_Witness ==
  \E t \in Threads :
    /\ pc[t] = "retry" /\ w[t].active /\ rs[t].calls = 0
    /\ lastEnd[w[t].cache_key] = "raise"
    /\ w[t].cache_key \notin DOMAIN cache

\* a call ends with the RetryError of an exhausted sequence
C11_WitnessExhausted ==
  \E t \in Threads :
    /\ EndsInError(t) /\ rs[t].calls = MaxRetries + 1
    /\ rs[t].result.exc.cls = "RetryError"


(***************************************************************************)
(* CacheManager.__new__ and __init__: the first constructions              *)
(***************************************************************************)
\* the class while cache_manager is being imported, before line 249 has
\* called CacheManager(): _instance is None, no Thread object exists
NotConstructed ==
  [instance |-> FALSE, initialized |-> FALSE, started |-> 0, created |-> 0, thread |-> 0]

\* `cache_manager = CacheManager()` at the end of the module has returned:
\* the import lock keeps every other thread out of the module until then,
\* so the thread that imports the module is the only one to construct
\* before
Importer == "t1"
Imported == klass.initialized
CanConstruct(t) == t = Importer \/ Imported

\* a __new__ that makes a new instance at every call
New_Fresh(t) ==
  /\ pc[t] = "idle"
  /\ pc' = [pc EXCEPT ![t] = "init"]
  /\ klass' = [klass EXCEPT !.instance = TRUE, !.initialized = FALSE]
  /\ UNCHANGED <<now, cache, order, lock, default_ttl, sweepVars, ret, lastSet, gone, retryVars, wrapVars, lastEnd, timer, iter, locals>>

\* __new__, all of it inside `with cls._lock:`: the instance is created
\* with _initialized False unless there is one already
New(t) ==
  /\ pc[t] = "idle"
  /\ pc' = [pc EXCEPT ![t] = "init"]
  /\ klass' = IF klass.instance THEN klass
              ELSE [klass EXCEPT !.instance = TRUE, !.initialized = FALSE]
  /\ UNCHANGED <<now, cache, order, lock, default_ttl, sweepVars, ret, lastSet, gone, retryVars, wrapVars, lastEnd, timer, iter, locals>>

\* an __init__ that does not test _initialized
InitCheck_Always(t) ==
  /\ pc[t] = "init"
  /\ pc' = [pc EXCEPT ![t] = "init_cache"]
  /\ UNCHANGED <<now, cache, order, lock, default_ttl, sweepVars, ret, lastSet, gone, retryVars, wrapVars, lastEnd, klass, timer, iter, locals>>

\* __init__: `if self._initialized: return`
InitCheck(t) ==
  /\ pc[t] = "init"
  /\ pc' = [pc EXCEPT ![t] = IF klass.initialized THEN "idle" ELSE "init_cache"]
  /\ UNCHANGED <<now, cache, order, lock, default_ttl, sweepVars, ret, lastSet, gone, retryVars, wrapVars, lastEnd, klass, timer, iter, locals>>

\* __init__: self._cache = {}
InitCacheField(t) ==
  /\ pc[t] = "init_cache"
  /\ pc' = [pc EXCEPT ![t] = "init_lock"]
  /\ cache' = EmptyDict
  /\ order' = <<>>
  /\ UNCHANGED <<now, lock, default_ttl, sweepVars, ret, lastSet, gone, retryVars, wrapVars, lastEnd, klass, timer, iter, locals>>

\* __init__: self._lock = threading.Lock(), a lock that nobody holds
InitLock(t) ==
  /\ pc[t] = "init_lock"
  /\ pc' = [pc EXCEPT ![t] = "init_ttl"]
  /\ lock' = NoThread
  /\ UNCHANGED <<now, cache, order, default_ttl, sweepVars, ret, lastSet, gone, retryVars, wrapVars, lastEnd, klass, timer, iter, locals>>

\* __init__: self._default_ttl = int(os.environ.get('CACHE_TTL', 3600))
InitTTL(t, env_ttl) ==
  /\ pc[t] = "init_ttl"
  /\ pc' = [pc EXCEPT ![t] = "init_thread"]
  /\ default_ttl' = env_ttl
  /\ UNCHANGED <<now, cache, order, lock, sweepVars, ret, lastSet, gone, retryVars, wrapVars, lastEnd, klass, timer, iter, locals>>

\* __init__: self._cleanup_thread = None
InitThread(t) ==
  /\ pc[t] = "init_thread"
  /\ pc' = [pc EXCEPT ![t] = "init_running"]
  /\ klass' = [klass EXCEPT !.thread = 0]
  /\ UNCHANGED <<now, cache, order, lock, default_ttl, sweepVars, ret, lastSet, gone, retryVars, wrapVars, lastEnd, timer, iter, locals>>

\* __init__: self._running = False; _start_cleanup_thread() is called next
InitRunning(t) ==
  /\ pc[t] = "init_running"
  /\ pc' = [pc EXCEPT ![t] = "start_running"]
  /\ running' = FALSE
  /\ UNCHANGED <<now, cache, order, lock, default_ttl, sweepPc, expired_keys, ret, lastSet, gone, retryVars, wrapVars, lastEnd, klass, timer, iter, locals>>

\* _start_cleanup_thread: self._running = True
StartRunning(t) ==
  /\ pc[t] = "start_running"
  /\ pc' = [pc EXCEPT ![t] = "start_thread"]
  /\ running' = TRUE
  /\ UNCHANGED <<now, cache, order, lock, default_ttl, sweepPc, expired_keys, ret, lastSet, gone, retryVars, wrapVars, lastEnd, klass, timer, iter, locals>>

\* the cleanup thread that the n-th Thread object runs once started
SweeperOf(n) == IF n <= 1 THEN Sweeper ELSE "sweeper2"

\* _start_cleanup_thread: self._cleanup_thread = threading.Thread(...), a
\* new Thread object that is not started yet (the model has room for as
\* many objects as it has cleanup threads)
StartThread(t) ==
  /\ pc[t] = "start_thread"
  /\ klass.created < Cardinality(Sweepers)
  /\ pc' = [pc EXCEPT ![t] = "start_start"]
  /\ klass' = [klass EXCEPT !.created = @ + 1, !.thread = klass.created + 1]
  /\ UNCHANGED <<now, cache, order, lock, default_ttl, sweepVars, ret, lastSet, gone, retryVars, wrapVars, lastEnd, timer, iter, locals>>

\* _start_cleanup_thread: self._cleanup_thread.start() on the object the
\* attribute holds at this moment: the thread starts and has yet to test
\* the flag; on None (another __init__ has reset the attribute) it is an
\* AttributeError, on an object started already a RuntimeError, and
\* __init__ ends there, _initialized staying False
StartStart(t) ==
  /\ pc[t] = "start_start"
  /\ IF klass.thread = 0
       THEN /\ pc' = [pc EXCEPT ![t] = "idle"]
            /\ ret' = [kind |-> "init", key |-> None, value |-> None, note |-> "AttributeError"]
            /\ UNCHANGED <<sweepPc, klass>>
       ELSE IF sweepPc[SweeperOf(klass.thread)] # "none"
         THEN /\ pc' = [pc EXCEPT ![t] = "idle"]
              /\ ret' = [kind |-> "init", key |-> None, value |-> None, note |-> "RuntimeError"]
              /\ UNCHANGED <<sweepPc, klass>>
         ELSE /\ pc' = [pc EXCEPT ![t] = "init_flag"]
              /\ sweepPc' = [sweepPc EXCEPT ![SweeperOf(klass.thread)] = "test"]
              /\ klass' = [klass EXCEPT !.started = @ + 1]
              /\ ret' = ret
  /\ UNCHANGED <<now, cache, order, lock, default_ttl, running, expired_keys, lastSet, gone, retryVars, wrapVars, lastEnd, timer, iter, locals>>

\* __init__: self._initialized = True
InitFlag(t) ==
  /\ pc[t] = "init_flag"
  /\ pc' = [pc EXCEPT ![t] = "idle"]
  /\ klass' = [klass EXCEPT !.initialized = TRUE]
  /\ UNCHANGED <<now, cache, order, lock, default_ttl, sweepVars, ret, lastSet, gone, retryVars, wrapVars, lastEnd, timer, iter, locals>>

\* the positions of a thread inside the body of __init__ (past the test of
\* _initialized) and of _start_cleanup_thread
InitBody ==
  {"init_cache", "init_lock", "init_ttl", "init_thread", "init_running",
   "start_running", "start_thread", "start_start", "init_flag"}

\* the process as `import cache_manager` begins: no instance, no cleanup
\* thread
InitClass ==
  /\ now = 0
  /\ cache = EmptyDict
  /\ order = <<>>
  /\ lock = NoThread
  /\ default_ttl = DEFAULT_CACHE_TTL
  /\ running = FALSE
  /\ sweepPc = NoSweeper
  /\ expired_keys = NoKeys
  /\ iter = NoIter
  /\ locals = NoItem
  /\ pc = [t \in Threads |-> "idle"]
  /\ ret = NoRet
  /\ lastSet = [k \in RawKeys |-> NoSet]
  /\ gone = [k \in RawKeys |-> "no"]
  /\ mgr = NoManager
  /\ call = NoCall
  /\ rs = [t \in Threads |-> NoRetry]
  /\ cached_ttl = <<>>
  /\ w = [t \in Threads |-> NoW]
  /\ lastEnd = [k \in RawKeys |-> "none"]
  /\ klass = NotConstructed
  /\ timer = NoTimer

\* the importing thread constructs CacheManager() (line 249); from then on
\* every thread constructs it, again and again.  The clock stays below
\* SWEEP_INTERVAL, so that no time.sleep(60) of a cleanup thread ends: a
\* started thread tests the flag and sleeps
NextClass ==
  \/ Tick
  \/ \E t \in Threads : CanConstruct(t) /\ New(t)
  \/ \E t \in Threads : InitCheck(t)
  \/ \E t \in Threads : InitCacheField(t)
  \/ \E t \in Threads : InitLock(t)
  \/ \E t \in Threads, env_ttl \in EnvCacheTTLs : InitTTL(t, env_ttl)
  \/ \E t \in Threads : InitThread(t)
  \/ \E t \in Threads : InitRunning(t)
  \/ \E t \in Threads : StartRunning(t)
  \/ \E t \in Threads : StartThread(t)
  \/ \E t \in Threads : StartStart(t)
  \/ \E t \in Threads : InitFlag(t)
  \/ \E s \in Sweepers : SweepLoop(s)

SpecClass == InitClass /\ [][NextClass]_vars

\* a step of thread t's CacheManager() call
ConstructionStep(t) ==
  \/ pc[t] = "idle" /\ pc'[t] = "init"
  \/ pc[t] \in {"init"} \cup InitBody /\ pc'[t] # pc[t]

\* C12: when several threads construct CacheManager() concurrently, the
\* initialization takes effect once: one cleanup thread is started by the
\* first construction and none is ever started after it, no thread runs
\* the body of __init__ again, and no construction step changes the flag,
\* the attribute _cleanup_thread or a cleanup thread.
C12_InitOnce ==
  /\ [](klass.started <= 1 /\ klass.created <= 1)
  /\ [](Imported => /\ klass.started = 1 /\ klass.thread = 1 /\ running
                    /\ sweepPc[Sweeper] # "none" /\ sweepPc["sweeper2"] = "none"
                    /\ \A t \in Threads : pc[t] \notin InitBody)
  /\ [][\A t \in Threads :
          (Imported /\ ConstructionStep(t))
            => UNCHANGED <<klass, running, sweepPc, cache, order, lock, default_ttl>>]_vars

\* both threads are inside CacheManager() at once, past __new__ and before
\* the test of _initialized, the one cleanup thread being in its sleep
C12_Witness ==
  /\ \A t \in Threads : pc[t] = "init"
  /\ klass.started = 1 /\ sweepPc = OneSweeper("sleep")


(***************************************************************************)
(* CacheManager.get_stats and stop                                         *)
(***************************************************************************)
\* one turn of sum(1 for item in self._cache.values() if item.is_expired()):
\* the item of key k is tested against the clock as it reads at this turn
CountItem(n, d, k, t) == IF is_expired(d[k], t) THEN n + 1 ELSE n

\* the dict get_stats returns, n being the sum
Stats(d, dflt, n) ==
  [total_items |-> Cardinality(DOMAIN d),
   expired_items |-> n,
   active_items |-> Cardinality(DOMAIN d) - n,
   default_ttl |-> dflt]

\* a caller enters `with self._lock:` of set, of get_stats
SetEnter(t) ==
  /\ Acquire(t, "idle", "set")
  /\ UNCHANGED <<now, cache, order, default_ttl, sweepVars, ret, lastSet, gone, retryVars, wrapVars, lastEnd, klass, timer, iter, locals>>

StatsEnter(t) ==
  /\ Acquire(t, "idle", "get_stats")
  /\ UNCHANGED <<now, cache, order, default_ttl, sweepVars, ret, lastSet, gone, retryVars, wrapVars, lastEnd, klass, timer, iter, locals>>

\* get_stats: the sum tests the next item of the dict
StatsCount(t) ==
  /\ pc[t] = "get_stats"
  /\ iter[t].i < Len(order)
  /\ iter' = [iter EXCEPT ![t] = [i |-> @.i + 1,
                                  n |-> CountItem(@.n, cache, order[@.i + 1], now)]]
  /\ UNCHANGED <<now, cache, order, lock, default_ttl, sweepVars, pc, ret, lastSet, gone, retryVars, wrapVars, lastEnd, klass, timer, locals>>

\* the sum is complete; get_stats leaves the `with` block and returns the
\* dict
GetStats(t) ==
  /\ pc[t] = "get_stats"
  /\ iter[t].i = Len(order)
  /\ lock' = IF lock = t THEN NoThread ELSE lock
  /\ pc' = [pc EXCEPT ![t] = "idle"]
  /\ ret' = [kind |-> "get_stats", key |-> None, value |-> None, note |-> "stats",
             stats |-> Stats(cache, default_ttl, iter[t].n)]
  /\ iter' = [iter EXCEPT ![t] = [i |-> 0, n |-> 0]]
  /\ UNCHANGED <<now, cache, order, default_ttl, sweepVars, lastSet, gone, retryVars, wrapVars, lastEnd, klass, timer, locals>>

\* join(timeout=1)
JOIN_TIMEOUT == 1

\* stop(): self._running = False
StopFlag(t) ==
  /\ pc[t] = "idle"
  /\ pc' = [pc EXCEPT ![t] = "stop"]
  /\ running' = FALSE
  /\ UNCHANGED <<now, cache, order, lock, default_ttl, sweepPc, expired_keys, iter, ret, lastSet, gone, retryVars, wrapVars, lastEnd, klass, timer, locals>>

\* stop(): self._cleanup_thread.join(timeout=1) begins
StopWait(t) ==
  /\ pc[t] = "stop"
  /\ pc' = [pc EXCEPT ![t] = "join"]
  /\ timer' = [timer EXCEPT !.join = now]
  /\ UNCHANGED <<now, cache, order, lock, default_ttl, sweepVars, iter, ret, lastSet, gone, retryVars, wrapVars, lastEnd, klass, locals>>

\* the join returns, the thread having ended or the timeout having passed,
\* and stop() returns
StopJoin(t) ==
  /\ pc[t] = "join"
  /\ sweepPc[SweeperOf(klass.thread)] = "done" \/ now >= timer.join + JOIN_TIMEOUT
  /\ pc' = [pc EXCEPT ![t] = "idle"]
  /\ ret' = [kind |-> "stop", key |-> None, value |-> None, note |-> "stop"]
  /\ UNCHANGED <<now, cache, order, lock, default_ttl, sweepVars, lastSet, gone, retryVars, wrapVars, lastEnd, klass, timer, iter, locals>>

(***************************************************************************)
(* The cleanup thread on the clock: set, get_stats and stop, no get        *)
(***************************************************************************)
\* the clock runs to MaxSweepTime seconds
MaxSweepTime == 62

SweepKeys == {"k1"}
SweepValues == {"v1"}
SweepTTLs == {<<1>>, <<2>>}
SweepCaller == "t1"

\* the instants at which set and stop are called
SweepSetTimes == {0, 58, 59}
SweepStopTimes == {1, 59}

\* a second passes
TickTimed ==
  /\ now < MaxSweepTime
  /\ now' = now + 1
  /\ UNCHANGED <<cache, order, lock, default_ttl, sweepVars, pc, ret, lastSet, gone, retryVars, wrapVars, lastEnd, klass, timer, iter, locals>>

InitSweep ==
  /\ now = 0
  /\ cache = EmptyDict
  /\ order = <<>>
  /\ lock = NoThread
  /\ default_ttl = DEFAULT_CACHE_TTL
  /\ running = TRUE
  /\ sweepPc = OneSweeper("test")
  /\ expired_keys = NoKeys
  /\ iter = NoIter
  /\ locals = NoItem
  /\ pc = [t \in Threads |-> "idle"]
  /\ ret = NoRet
  /\ lastSet = [k \in RawKeys |-> NoSet]
  /\ gone = [k \in RawKeys |-> "no"]
  /\ mgr = NoManager
  /\ call = NoCall
  /\ rs = [t \in Threads |-> NoRetry]
  /\ cached_ttl = <<>>
  /\ w = [t \in Threads |-> NoW]
  /\ lastEnd = [k \in RawKeys |-> "none"]
  /\ klass = Constructed
  /\ timer = NoTimer

NextSweep ==
  \/ TickTimed
  \/ now \in SweepSetTimes /\ SetEnter(SweepCaller)
  \/ \E k \in SweepKeys, v \in SweepValues, ttl \in SweepTTLs : Set(SweepCaller, k, v, ttl)
  \/ StatsEnter(SweepCaller)
  \/ StatsCount(SweepCaller)
  \/ GetStats(SweepCaller)
  \/ now \in SweepStopTimes /\ StopFlag(SweepCaller)
  \/ StopWait(SweepCaller)
  \/ StopJoin(SweepCaller)
  \/ SweepLoop(Sweeper)
  \/ SweepAcquire(Sweeper)
  \/ SweepScan(Sweeper)
  \/ SweepRemove(Sweeper)
  \/ SweepRelease(Sweeper)

SpecSweep == InitSweep /\ [][NextSweep]_vars

(***************************************************************************)
(* Two passes of the cleanup thread: an entry set just before the first    *)
(***************************************************************************)
\* the clock runs past the second wake-up of the cleanup thread
MaxDriftTime == 121

DriftKeys == {"k1"}
DriftValues == {"v1"}
DriftTTLs == {<<1>>, <<2>>}
DriftCaller == "t1"

\* the instant at which set is called: a second before the first sleep of
\* the cleanup thread ends
DriftSetTimes == {59}

\* a second passes
TickDrift ==
  /\ now < MaxDriftTime
  /\ now' = now + 1
  /\ UNCHANGED <<cache, order, lock, default_ttl, sweepVars, pc, ret, lastSet, gone, retryVars, wrapVars, lastEnd, klass, timer, iter, locals>>

\* CacheManager() is constructed at second 0; the caller sets and calls
\* get_stats, never get; the cleanup thread sleeps and makes its passes
NextDrift ==
  \/ TickDrift
  \/ now \in DriftSetTimes /\ SetEnter(DriftCaller)
  \/ \E k \in DriftKeys, v \in DriftValues, ttl \in DriftTTLs : Set(DriftCaller, k, v, ttl)
  \/ StatsEnter(DriftCaller)
  \/ StatsCount(DriftCaller)
  \/ GetStats(DriftCaller)
  \/ SweepLoop(Sweeper)
  \/ SweepAcquire(Sweeper)
  \/ SweepScan(Sweeper)
  \/ SweepRemove(Sweeper)
  \/ SweepRelease(Sweeper)

SpecDrift == InitCache /\ [][NextDrift]_vars


(***************************************************************************)
(* Properties of the cleanup thread                                        *)
(***************************************************************************)
\* stop() has returned
Stopped == running = FALSE /\ \A t \in Threads : pc[t] \notin {"stop", "join"}

\* C13: after stop() has returned the cleanup thread begins no cleanup
\* pass and removes no entry.
C13_NoSweepAfterStop ==
  [][Stopped => \A s \in Sweepers :
                  /\ ~(sweepPc[s] = "sleep" /\ sweepPc'[s] = "scan")
                  /\ ~(sweepPc[s] = "remove" /\ cache' # cache)]_vars

\* the cleanup thread is running and the last set of key k, not repeated
\* since, has been expired for more than d seconds
ExpiredFor(k, d) ==
  /\ running /\ lastSet[k].live
  /\ now > lastSet[k].at + LastTTL(k) + d

\* the cleanup thread is in a time.sleep(60) that is not over yet (it is
\* not being kept waiting, for the processor or for the lock), and its
\* passes so far, the first of which was due at second 60, have put it no
\* more than d seconds behind: the sleep it is in ends by 2 * 60 + d
OnTime(d) ==
  /\ sweepPc[Sweeper] = "sleep" /\ now <= timer.wake[Sweeper]
  /\ timer.wake[Sweeper] <= 2 * SWEEP_INTERVAL + d

\* C14: with the cleanup thread running and no get issued, an entry set
\* at time t with ttl T and not set again is out of the map at every time
\* later than t + T + 60.  (Read at the instants at which the cleanup
\* thread is asleep and on time, having lost no more than a second since
\* its first sleep ended: a failure is then none of the scheduler.)
C14_SweptWithinInterval ==
  \A k \in RawKeys : (ExpiredFor(k, SWEEP_INTERVAL) /\ OnTime(1)) => k \notin DOMAIN cache

\* the same at every instant, whatever the delays of the cleanup thread
C14_SweptWithinIntervalAlways ==
  \A k \in RawKeys : ExpiredFor(k, SWEEP_INTERVAL) => k \notin DOMAIN cache


\* the step in which a cleanup pass removes an entry and has more to remove
RemovalWithMoreToCome ==
  sweepPc[Sweeper] = "remove" /\ cache' # cache /\ expired_keys'[Sweeper] # {}

\* C15: during a pass with several expired entries to remove the cleanup
\* thread gives the lock up between two removals, so that a get, set or
\* delete of another thread can run between them.
C15_LockReleasedBetweenRemovals ==
  [][RemovalWithMoreToCome => lock' # Sweeper]_vars


\* thread t is in the retry sequence of a wrapper call (about to invoke
\* the operation, or asleep between two invocations)
BackingOff(t) == w[t].active /\ pc[t] \in {"retry", "sleep"}

\* C16: a thread in a retry delay never holds the cache lock: a caller of
\* cached(with_retry(op)) holds it only inside its get and inside its set,
\* and not from the return of the missed get to the end of the retry
\* sequence.
C16_NoLockWhileBackingOff ==
  \A t \in Threads :
    /\ BackingOff(t) => lock # t
    /\ lock = t => pc[t] \in {"w_get_in", "w_set_in"}

\* t1 is asleep after a failed invocation while t2 is inside its set
C16_Witness ==
  /\ pc["t1"] = "sleep" /\ w["t1"].active /\ rs["t1"].delays # <<>>
  /\ pc["t2"] = "w_set_in" /\ lock = "t2"


(***************************************************************************)
(* Properties of set, get and delete under interleaving, continued         *)
(***************************************************************************)
\* the entry of every key in the map is the one the last set of the key
\* (the last to have held the lock) wrote: its value, and the expiry its
\* own ttl gives
EntryOfLastSet ==
  \A k \in DOMAIN cache :
    /\ lastSet[k].live
    /\ cache[k] = [value |-> lastSet[k].value,
                   expiry |-> lastSet[k].at + LastTTL(k)]

\* a get returns absent, or the value of the last set within its own ttl
GetReturnsWholeSet ==
  \A t \in Threads :
    GetStep(t) =>
      \/ ret'.value = None
      \/ /\ ret'.value = lastSet[ret'.key].value
         /\ now <= lastSet[ret'.key].at + LastTTL(ret'.key)

\* C17: for concurrent sets of one key the entry left is the (value,
\* expiry) pair of the set that took the lock last, and every get returns
\* absent or the value of one whole set, whose own ttl decides its expiry:
\* never the value of one set with the expiry of another.
C17_LastWriterWins == []EntryOfLastSet /\ [][GetReturnsWholeSet]_vars

\* a set of v2 with ttl 2 at second 1 has just returned, leaving its own
\* pair for k1, while t1 is inside a further set
C17_Witness ==
  /\ ret.kind = "set" /\ ret.key = "k1"
  /\ lastSet["k1"].value = "v2" /\ lastSet["k1"].ttl = <<2>> /\ lastSet["k1"].at = 1
  /\ "k1" \in DOMAIN cache /\ cache["k1"] = [value |-> "v2", expiry |-> 3]
  /\ pc["t1"] = "set" /\ lock = "t1"


\* the step is the return of a get or a removal of the cleanup pass
GetOrSweepStep == sweepPc[Sweeper] = "remove" \/ \E t \in Threads : GetStep(t)

\* C18: the expiry test and the removal of get are one step with respect
\* to set, delete, clear and the sweep: a get, and a cleanup pass, removes
\* an entry only if that entry is expired at the moment of the removal (so
\* never a fresh entry that a concurrent set wrote for the key), and a get
\* removes nothing but the entry of its own key.
C18_OnlyExpiredRemoved ==
  [][GetOrSweepStep =>
       /\ \A k \in DOMAIN cache :
            k \notin DOMAIN cache' => is_expired(cache[k], now)
       /\ \A k \in DOMAIN cache' : k \in DOMAIN cache /\ cache'[k] = cache[k]
       /\ \A t \in Threads, k \in DOMAIN cache :
            (GetStep(t) /\ k # ret'.key) => k \in DOMAIN cache']_vars

\* a get of k1 has found its entry expired and removed it, leaving the
\* entry of k2, which is not expired, in the map
C18_Witness ==
  /\ ret.kind = "get" /\ ret.key = "k1" /\ ret.note = "expired"
  /\ "k1" \notin DOMAIN cache
  /\ "k2" \in DOMAIN cache /\ ~is_expired(cache["k2"], now)

\* a cleanup pass has removed the expired k1 and holds the lock, k2 being
\* in the map and not expired
C18_WitnessSweep ==
  /\ sweepPc[Sweeper] = "remove" /\ lock = Sweeper /\ expired_keys[Sweeper] = {}
  /\ lastSet["k1"].live /\ "k1" \notin DOMAIN cache
  /\ "k2" \in DOMAIN cache /\ ~is_expired(cache["k2"], now)


\* C19: for every key, value and ttl T <= 0, T = 0 with no clock advance
\* included, a get of the key that follows the set (no delete or clear in
\* between) returns absent.
C19_NonPositiveTTLAbsent ==
  [][\A t \in Threads :
       (GetStep(t) /\ lastSet[ret'.key].live /\ LastTTL(ret'.key) <= 0)
         => ret'.value = None]_vars


\* the step in which thread t's delete returns (key and result in ret')
DeleteStep(t) == pc[t] = "delete" /\ pc'[t] = "idle"

\* what a returning delete has done
DeleteRemovesOwnKey ==
  \A t \in Threads :
    DeleteStep(t) =>
      /\ ret'.value = (ret'.key \in DOMAIN cache)
      /\ ret'.key \notin DOMAIN cache'
      /\ \A k \in DOMAIN cache : k # ret'.key => (k \in DOMAIN cache' /\ cache'[k] = cache[k])
      /\ DOMAIN cache' \subseteq DOMAIN cache
      /\ ret'.value = FALSE => cache' = cache

\* a get of a key that no set has written since its last delete
GetAfterDelete ==
  \A t \in Threads :
    (GetStep(t) /\ ~lastSet[ret'.key].live) => ret'.value = None

\* C20: delete(K) returns true exactly when an entry for K was in the map
\* and this call removed it, and false when there was none (map
\* unchanged); it leaves the entries of the other keys as they are; and
\* from a delete of K to the next set of K the key is not in the map and
\* get(K) returns absent.
C20_Delete ==
  /\ [][DeleteRemovesOwnKey /\ GetAfterDelete]_vars
  /\ [](\A k \in RawKeys : ~lastSet[k].live => k \notin DOMAIN cache)

\* a delete of k1 has returned true and left k2 in the map
C20_Witness ==
  /\ ret.kind = "delete" /\ ret.key = "k1" /\ ret.value = TRUE
  /\ "k1" \notin DOMAIN cache /\ "k2" \in DOMAIN cache

\* a delete has returned false
C20_WitnessAbsent == ret.kind = "delete" /\ ret.value = FALSE

\* a get of k1 has returned absent after k1 was deleted
C20_WitnessGet ==
  /\ ret.kind = "get" /\ ret.key = "k1" /\ ret.note = "miss"
  /\ ~lastSet["k1"].live /\ "k2" \in DOMAIN cache


(***************************************************************************)
(* get, set, delete, clear and get_stats used by several threads           *)
(***************************************************************************)
StatsValues == {"v1"}
StatsTTLs == {<<>>, <<1>>}

\* the clock stays below SWEEP_INTERVAL: the cleanup thread is asleep
NextStats ==
  \/ Tick
  \/ \E t \in Threads : Enter(t)
  \/ \E t \in Threads, k \in RawKeys : Get(t, k)
  \/ \E t \in Threads, k \in RawKeys, v \in StatsValues, ttl \in StatsTTLs : Set(t, k, v, ttl)
  \/ \E t \in Threads, k \in RawKeys : Delete(t, k)
  \/ \E t \in Threads : Clear(t)
  \/ \E t \in Threads : StatsEnter(t)
  \/ \E t \in Threads : StatsCount(t)
  \/ \E t \in Threads : GetStats(t)

SpecStats == InitCache /\ [][NextStats]_vars

\* the steps in which thread t's clear, get_stats return
ClearStep(t) == pc[t] = "clear" /\ pc'[t] = "idle"
StatsStep(t) == pc[t] = "get_stats" /\ pc'[t] = "idle"

\* no key has been set since the last clear (or since its last delete)
NoSetSinceClear == \A k \in DOMAIN lastSet : ~lastSet[k].live

\* C21: when clear() returns the map is empty, and for as long as no set
\* follows get_stats() returns total_items = 0 and get(K) returns absent
\* for every key, those present before the clear included.
C21_ClearEmpties ==
  [][\A t \in Threads :
       /\ ClearStep(t) => (cache' = EmptyDict /\ NoSetSinceClear')
       /\ (StatsStep(t) /\ NoSetSinceClear) => ret'.stats.total_items = 0
       /\ (GetStep(t) /\ NoSetSinceClear) => ret'.value = None
       /\ (GetStep(t) /\ gone[ret'.key] = "cleared") => ret'.value = None]_vars

\* get_stats has returned total_items = 0 after a clear that found both
\* keys in the map, no key having been set (or deleted) since
C21_Witness ==
  /\ ret.kind = "get_stats" /\ ret.stats.total_items = 0
  /\ NoSetSinceClear /\ cache = EmptyDict
  /\ \A k \in RawKeys : gone[k] = "cleared"

\* a get has returned absent for a key that was in the map at the last
\* clear, no key having been set since
C21_WitnessGet ==
  /\ ret.kind = "get" /\ ret.value = None /\ ret.note = "miss"
  /\ NoSetSinceClear /\ gone[ret.key] = "cleared"

\* the value clear() hands back read as a count: None is no count at all
AsCount(v) == IF v = None THEN <<>> ELSE <<v>>

\* C22: clear() returns the number of entries it removed, the number of
\* entries in the map when it took the lock (0 for an empty map).
C22_ClearReturnsCount ==
  [][\A t \in Threads :
       ClearStep(t) => AsCount(ret'.value) = <<Cardinality(DOMAIN cache)>>]_vars

(***************************************************************************)
(* The default key of cached for calls of several shapes                   *)
(***************************************************************************)
KeyArgValues == {StrArg("a"), StrArg("b"), StrArg("a:b"), StrArg("1"), IntArg("1"), StrArg("x:1")}
KeyArgLists ==
  {<<>>} \cup {<<a>> : a \in KeyArgValues}
         \cup {<<a, b>> : a \in {StrArg("a"), IntArg("1")}, b \in {StrArg("b"), StrArg("1")}}
KeyKwargs ==
  {<<>>, << <<"x", IntArg("1")>> >>, << <<"y", IntArg("1")>> >>,
   << <<"x", StrArg("a")>> >>,
   << <<"x", IntArg("1")>>, <<"y", StrArg("b")>> >>,
   << <<"y", StrArg("b")>>, <<"x", IntArg("1")>> >>}

InitKey ==
  /\ InitCachedWith({<<"op">>}, CachedTTLs, WithMaxRetries, WithRetryDelay)

NextKey == \E t \in Threads, a \in KeyArgLists, kw \in KeyKwargs : WCall(t, a, kw)

SpecKey == InitKey /\ [][NextKey]_vars

\* the items of a kwargs dict, whatever the order they were passed in
Items(kwargs) == {kwargs[i] : i \in 1..Len(kwargs)}

\* two calls pass identical arguments: the same positional values in the
\* same order and the same keyword names with the same values
SameArguments(c1, c2) == c1.args = c2.args /\ Items(c1.kwargs) = Items(c2.kwargs)

\* C23: under the default key scheme two calls of one function get the
\* same key exactly when their arguments are identical: the same key for
\* identical arguments whatever the order of the keywords, and different
\* keys when the (stringifiable) arguments differ in a positional value,
\* in the number of positional arguments, or in a keyword name or value.
C23_KeysSeparateArguments ==
  \A t1, t2 \in Threads :
    (w[t1].active /\ w[t2].active)
      => (SameArguments(w[t1], w[t2]) <=> w[t1].cache_key = w[t2].cache_key)

\* the half of C23 that holds: identical arguments, same key
C23_SameArgumentsSameKey ==
  \A t1, t2 \in Threads :
    (w[t1].active /\ w[t2].active /\ SameArguments(w[t1], w[t2]))
      => w[t1].cache_key = w[t2].cache_key

(***************************************************************************)
(* CacheManager() constructed again and again by one caller                *)
(***************************************************************************)
SingletonCaller == "t1"
SingletonKeys == {"k1"}
SingletonValues == {"v1"}
SingletonTTLs == {<<>>, <<1>>}

\* the caller constructs CacheManager() and, once it has the object, uses
\* it; the cleanup thread, once started, tests the flag and sleeps (the
\* clock stays below SWEEP_INTERVAL)
NextSingleton ==
  \/ Tick
  \/ New(SingletonCaller)
  \/ InitCheck(SingletonCaller)
  \/ InitCacheField(SingletonCaller)
  \/ InitLock(SingletonCaller)
  \/ \E env_ttl \in EnvCacheTTLs : InitTTL(SingletonCaller, env_ttl)
  \/ InitThread(SingletonCaller)
  \/ InitRunning(SingletonCaller)
  \/ StartRunning(SingletonCaller)
  \/ StartThread(SingletonCaller)
  \/ StartStart(SingletonCaller)
  \/ InitFlag(SingletonCaller)
  \/ klass.initialized /\ Enter(SingletonCaller)
  \/ \E k \in SingletonKeys : Get(SingletonCaller, k)
  \/ \E k \in SingletonKeys, v \in SingletonValues, ttl \in SingletonTTLs : Set(SingletonCaller, k, v, ttl)
  \/ \E k \in SingletonKeys : Delete(SingletonCaller, k)
  \/ Clear(SingletonCaller)
  \/ SweepLoop(Sweeper)

SpecSingleton == InitClass /\ [][NextSingleton]_vars

\* the steps of thread t's CacheManager(): __new__, and the test at the
\* top of __init__
NewStep(t) == pc[t] = "idle" /\ pc'[t] = "init"
InitCheckStep(t) == pc[t] = "init" /\ pc'[t] # "init"

\* the first construction is over
FirstConstructionDone == klass.instance /\ klass.initialized

\* a construction after the first leaves the one instance as it is
LaterConstructionKeepsState ==
  \A t \in Threads :
    /\ (FirstConstructionDone /\ NewStep(t)) => klass' = klass
    /\ (FirstConstructionDone /\ InitCheckStep(t))
         => /\ pc'[t] = "idle"
            /\ UNCHANGED <<cache, order, lock, default_ttl, running, sweepPc, expired_keys, klass, iter, locals>>

\* C24: in sequential use every CacheManager() returns the one instance,
\* and a construction after the first does not run the initialization
\* again: the entries stay, the lock is the same (a holder keeps it), and
\* no second cleanup thread is started.
C24_SequentialSingleton ==
  /\ [][LaterConstructionKeepsState]_vars
  /\ [](klass.started <= 1)
  /\ [](\A t \in Threads :
          pc[t] \in InitBody => ~klass.initialized)
  /\ [](FirstConstructionDone => klass.started = 1)

\* a construction after the first has passed __new__ while the map holds
\* an entry and the one cleanup thread is in its sleep
C24_Witness ==
  /\ FirstConstructionDone /\ pc[SingletonCaller] = "init"
  /\ cache # EmptyDict /\ sweepPc = OneSweeper("sleep") /\ klass.started = 1

(***************************************************************************)
(* Properties of retry, continued                                          *)
(***************************************************************************)
\* delay d (microseconds) is the k-th capped delay times 1 + u, u one of
\* the values uniform(-0.2, 0.2) takes, in thousandths
JitteredBy(d, k, u) == d = (CappedDelayUs(k) \div 1000) * (1000 + u)

\* C25: with jitter on, the k-th delay of a call is the capped delay
\* min(retry_delay * backoff_factor^(k-1), max_delay) times 1 + u, u drawn
\* from [-0.2, 0.2] for that delay, from the same range at every attempt
\* number; so it lies between 80% and 120% of the capped delay and is not
\* negative.
C25_JitteredDelays ==
  \A t \in Threads : mgr.jitter =>
    \A k \in 1..Len(rs[t].delays) :
      /\ \E u \in JitterChoices : JitteredBy(rs[t].delays[k], k, u)
      /\ rs[t].delays[k] >= (CappedDelayUs(k) \div 1000) * 800
      /\ rs[t].delays[k] <= (CappedDelayUs(k) \div 1000) * 1200
      /\ rs[t].delays[k] >= 0

\* a call with jitter on whose first delay took the factor 0.8 and whose
\* third, a capped one, took the factor 1.2
C25_Witness ==
  \E t \in Threads :
    /\ mgr.jitter /\ RetryDelay = 100 /\ mgr.backoff_factor = 2 /\ mgr.max_delay = 300
    /\ Len(rs[t].delays) = 3
    /\ rs[t].delays[1] = 80000 /\ rs[t].delays[3] = 360000

(***************************************************************************)
(* One RetryManager, retry() called by several threads                     *)
(***************************************************************************)
MTMaxRetries == {<<1>>, <<2>>}
MTRetryDelay == <<100>>
MTMaxDelay == <<300>>
MTOpValues == {"ok"}
MTExcClasses == {"ConnectionError", "ValueError"}

InitRetryMT ==
  /\ now = 0
  /\ cache = EmptyDict
  /\ order = <<>>
  /\ lock = NoThread
  /\ default_ttl = DEFAULT_CACHE_TTL
  /\ running = TRUE
  /\ sweepPc = OneSweeper("sleep")
  /\ expired_keys = NoKeys
  /\ iter = NoIter
  /\ locals = NoItem
  /\ pc = [t \in Threads |-> "idle"]
  /\ ret = NoRet
  /\ lastSet = [k \in RawKeys |-> NoSet]
  /\ gone = [k \in RawKeys |-> "no"]
  /\ \E mr \in MTMaxRetries, j \in BOOLEAN :
       mgr = RetryManagerInit(mr, MTRetryDelay, MTMaxDelay, DEFAULT_BACKOFF_FACTOR, j, <<>>)
  /\ \E n \in FuncNames : call = [NoCall EXCEPT !.func_name = n]
  /\ rs = [t \in Threads |-> NoRetry]
  /\ cached_ttl = <<>>
  /\ w = [t \in Threads |-> NoW]
  /\ lastEnd = [k \in RawKeys |-> "none"]
  /\ klass = Constructed
  /\ timer = FirstSleep

NextRetryMT ==
  \/ \E t \in Threads : RetryCall(t)
  \/ \E t \in Threads, o \in Outcomes(MTOpValues, MTExcClasses), u \in JitterChoices : RetryLoop(t, o, u)
  \/ \E t \in Threads : RetryWake(t)

SpecRetryMT == InitRetryMT /\ [][NextRetryMT]_vars

\* thread t takes a step of its retry() call
RetryStep(t) == pc'[t] # pc[t]

\* the locals of thread t's call are those of a call running alone: so
\* far every invocation failed with a retryable error, one delay followed
\* each, computed from the call's own attempt number, and the last error
\* is the one its own latest invocation raised
OwnLocals(t) ==
  /\ rs[t].calls <= MaxRetries + 1
  /\ rs[t].result.kind = "none"
       => /\ rs[t].attempts = rs[t].calls
          /\ Len(rs[t].delays) = rs[t].attempts
  /\ \A k \in 1..Len(rs[t].delays) :
       \E u \in JitterChoices :
         rs[t].delays[k] = (CappedDelayUs(k) \div 1000) * (1000 + (IF mgr.jitter THEN u ELSE 0))
  /\ rs[t].calls >= 1 /\ rs[t].last.kind = "raise"
       => rs[t].last_exception = Exc(rs[t].last.cls, rs[t].calls)
  /\ (rs[t].result.kind = "raise" /\ rs[t].result.exc.cls = "RetryError")
       => /\ rs[t].calls = MaxRetries + 1
          /\ rs[t].result.exc = RetryError(rs[t].last_exception, rs[t].calls)

\* C26: two concurrent retry() calls on one RetryManager are independent:
\* a step of one call changes nothing of the other (attempt counter,
\* delays, last error, position), each call's locals are those of a call
\* running alone, so that a failure of one takes nothing from the retry
\* budget of the other, and a caller that is not asleep can invoke its
\* operation whatever the other does, asleep or not.
C26_IndependentCalls ==
  /\ [][\A t, o \in Threads :
          (t # o /\ RetryStep(t)) => (rs'[o] = rs[o] /\ pc'[o] = pc[o])]_vars
  /\ [](\A t \in Threads : OwnLocals(t))
  /\ [](\A t \in Threads :
          pc[t] = "retry" =>
            ENABLED (\E oc \in Outcomes(MTOpValues, MTExcClasses), u \in JitterChoices :
                       RetryLoop(t, oc, u)))

\* t1 is asleep after its second failure while t2, which began later, has
\* invoked its operation once and got its value
C26_Witness ==
  /\ MaxRetries = 2
  /\ pc["t1"] = "sleep" /\ rs["t1"].attempts = 2 /\ Len(rs["t1"].delays) = 2
  /\ rs["t2"].calls = 1 /\ rs["t2"].result = Returned("ok")

\* t1 has used up its budget and raised RetryError while t2, after one
\* failure, still has its own two retries
C26_WitnessBudget ==
  /\ MaxRetries = 2
  /\ rs["t1"].result.kind = "raise" /\ rs["t1"].attempts = 3
  /\ pc["t2"] = "sleep" /\ rs["t2"].attempts = 1

(***************************************************************************)
(* with_retry(max_retries, retry_delay)(func) called with keywords         *)
(***************************************************************************)
DecoMaxRetries == <<1>>
DecoRetryDelay == <<10>>
DecoCaller == "t1"
DecoArgLists == {<<>>, <<StrArg("u1")>>, <<IntArg("1"), StrArg("u1")>>}
DecoKwargs ==
  {<<>>, << <<"x", IntArg("1")>> >>, << <<"y", StrArg("b")>>, <<"x", IntArg("1")>> >>,
   << <<"max_retries", IntArg("5")>> >>,
   << <<"retry_delay", IntArg("0")>> >>,
   << <<"x", IntArg("1")>>, <<"func", StrArg("a")>> >>}
DecoOpValues == {"ok"}
DecoExcClasses == {"ConnectionError", "ValueError"}

InitDeco ==
  /\ now = 0
  /\ cache = EmptyDict
  /\ order = <<>>
  /\ lock = NoThread
  /\ default_ttl = DEFAULT_CACHE_TTL
  /\ running = TRUE
  /\ sweepPc = OneSweeper("sleep")
  /\ expired_keys = NoKeys
  /\ iter = NoIter
  /\ locals = NoItem
  /\ pc = [t \in Threads |-> "idle"]
  /\ ret = NoRet
  /\ lastSet = [k \in RawKeys |-> NoSet]
  /\ gone = [k \in RawKeys |-> "no"]
  /\ mgr = WithRetryManager(DecoMaxRetries, DecoRetryDelay, <<>>)
  /\ \E n \in FuncNames : call = WithRetryCall(n, DecoMaxRetries, DecoRetryDelay, <<>>)
  /\ rs = [t \in Threads |-> NoRetry]
  /\ cached_ttl = <<>>
  /\ w = [t \in Threads |-> NoW]
  /\ lastEnd = [k \in RawKeys |-> "none"]
  /\ klass = Constructed
  /\ timer = FirstSleep

NextDeco ==
  \/ \E a \in DecoArgLists, kw \in DecoKwargs : WithRetryWrapper(DecoCaller, a, kw)
  \/ \E o \in Outcomes(DecoOpValues, DecoExcClasses), u \in JitterChoices : RetryLoop(DecoCaller, o, u)
  \/ RetryWake(DecoCaller)

SpecDeco == InitDeco /\ [][NextDeco]_vars

\* thread t's call of the wrapped function is over
CallOver(t) == rs[t].result.kind # "none"

\* every invocation of func in thread t's call got the arguments of the
\* call, and a call that is over has invoked func and ended as retry ends:
\* with func's value, func's non-retryable error, or RetryError after
\* max_retries + 1 invocations
SignatureKept(t) ==
  /\ \A i \in 1..Len(rs[t].received) :
       rs[t].received[i] = [args |-> rs[t].args, kwargs |-> rs[t].kwargs]
  /\ CallOver(t) =>
       /\ rs[t].calls >= 1 /\ Len(rs[t].received) = rs[t].calls
       /\ \/ rs[t].result = Returned(rs[t].last.value)
          \/ rs[t].result = Raised(rs[t].last_exception)
          \/ /\ rs[t].result = Raised(RetryError(rs[t].last_exception, rs[t].calls))
             /\ rs[t].calls = DecoMaxRetries[1] + 1

\* C27: a function wrapped with with_retry keeps its call signature: for
\* every argument list and every keyword name, a call of the wrapper
\* invokes func, each invocation (first try and retries) receives exactly
\* the positional and keyword arguments of the call, and the outcome is
\* that of retry with the decorator's max_retries, retry_delay and
\* retry_exceptions.
C27_SignatureKept == \A t \in Threads : SignatureKept(t)

\* the same for the calls whose keywords are no parameter name of retry,
\* func being a function (it has __name__)
C27_SignatureKeptOtherNames ==
  \A t \in Threads : (HasName(call) /\ BindsToRetry(rs[t].kwargs)) => SignatureKept(t)

(***************************************************************************)
(* delete of an entry that is expired and still in the map                 *)
(***************************************************************************)
\* C28, as stated: delete(K) returns true only when a get(K) at the same
\* instant would return a value; for an entry that is expired and not yet
\* evicted it returns false.
C28_DeleteAgreesWithGet ==
  [][\A t \in Threads :
       DeleteStep(t) =>
         (ret'.value = TRUE => GetValue(cache, ret'.key, now) # None)]_vars

\* C28, amended: delete(K) returns true exactly when the map holds an
\* entry under K at that instant, expired or not: true whenever a get(K)
\* would return a value, true as well for an entry that is expired and not
\* yet evicted (for which get returns absent), the entry being removed in
\* both cases, and false only when the map holds nothing under K.
C28_DeleteTestsPresence ==
  [][\A t \in Threads :
       DeleteStep(t) =>
         /\ GetValue(cache, ret'.key, now) # None => ret'.value = TRUE
         /\ (ret'.key \in DOMAIN cache /\ is_expired(cache[ret'.key], now))
              => (ret'.value = TRUE /\ ret'.key \notin DOMAIN cache')
         /\ ret'.key \notin DOMAIN cache => ret'.value = FALSE]_vars

\* a delete has returned true for an entry that was expired and still in
\* the map
C28_Witness ==
  ret.kind = "delete" /\ ret.note = "expired" /\ ret.value = TRUE /\ ret.key \notin DOMAIN cache

(***************************************************************************)
(* Properties of retry: max_retries below zero, empty retry_exceptions     *)
(***************************************************************************)
\* thread t's retry() has raised RetryError
RaisedRetryError(t) ==
  rs[t].result.kind = "raise" /\ rs[t].result.exc.cls = "RetryError"

\* C29: retry invokes the operation at least once whatever max_retries is,
\* zero and negative values included, and a RetryError it raises wraps an
\* error the operation raised (original_exception is not None), with
\* attempts >= 1.
C29_InvokedAtLeastOnce ==
  \A t \in Threads :
    /\ rs[t].result.kind # "none" => rs[t].calls >= 1
    /\ RaisedRetryError(t)
         => /\ rs[t].result.exc.original_exception # NoExc
            /\ rs[t].result.exc.attempts >= 1

\* the same for max_retries >= 0
C29_InvokedAtLeastOnceNonNegative ==
  \A t \in Threads :
    MaxRetries >= 0 =>
      /\ rs[t].result.kind # "none" => rs[t].calls >= 1
      /\ RaisedRetryError(t)
           => /\ rs[t].result.exc.original_exception = Exc(rs[t].last.cls, rs[t].calls)
              /\ rs[t].result.exc.attempts >= 1

\* RetryManager(retry_exceptions=[]), retry() called with no override or
\* with retry_exceptions=[]
EmptyCtorMaxRetries == {<<1>>, <<2>>}
EmptyCtorRetryDelay == <<100>>
EmptyCtorMaxDelay == <<300>>
EmptyCallRetryExceptions == {<<>>, <<{}>>}

InitEmptyList ==
  /\ now = 0
  /\ cache = EmptyDict
  /\ order = <<>>
  /\ lock = NoThread
  /\ default_ttl = DEFAULT_CACHE_TTL
  /\ running = TRUE
  /\ sweepPc = OneSweeper("sleep")
  /\ expired_keys = NoKeys
  /\ iter = NoIter
  /\ locals = NoItem
  /\ pc = [t \in Threads |-> "idle"]
  /\ ret = NoRet
  /\ lastSet = [k \in RawKeys |-> NoSet]
  /\ gone = [k \in RawKeys |-> "no"]
  /\ \E mr \in EmptyCtorMaxRetries, j \in BOOLEAN :
       mgr = RetryManagerInit(mr, EmptyCtorRetryDelay, EmptyCtorMaxDelay,
                              DEFAULT_BACKOFF_FACTOR, j, <<{}>>)
  /\ call \in [func_name : FuncNames, max_retries : {<<>>}, retry_delay : {<<>>},
               retry_exceptions : EmptyCallRetryExceptions]
  /\ rs = [t \in Threads |-> NoRetry]
  /\ cached_ttl = <<>>
  /\ w = [t \in Threads |-> NoW]
  /\ lastEnd = [k \in RawKeys |-> "none"]
  /\ klass = Constructed
  /\ timer = FirstSleep

SpecEmptyList == InitEmptyList /\ [][NextRetry]_vars

\* an error of thread t's operation has propagated on its first
\* occurrence: one invocation, no delay, the error itself raised
PropagatesAtOnce(t) ==
  (rs[t].calls >= 1 /\ rs[t].last.kind = "raise")
    => /\ rs[t].calls = 1 /\ rs[t].delays = <<>>
       /\ rs[t].result = Raised(Exc(rs[t].last.cls, 1))

\* C30: a RetryManager constructed with retry_exceptions=[] treats no
\* error as retryable: every error of the operation propagates on its
\* first occurrence after a single invocation, with or without a per-call
\* override, just as when [] is the per-call override.
C30_EmptyListRetriesNothing == \A t \in Threads : PropagatesAtOnce(t)

\* the same for the calls that pass retry_exceptions=[] themselves, func
\* being a function (it has __name__)
C30_EmptyOverrideRetriesNothing ==
  \A t \in Threads :
    (HasName(call) /\ call.retry_exceptions = <<{}>>) => PropagatesAtOnce(t)

(***************************************************************************)
(* Properties of retry: the delays and max_delay                           *)
(***************************************************************************)
\* C31, as stated: every delay retry sleeps is at most max_delay, with
\* jitter on as well as off, at every attempt number.
C31_DelayAtMostMaxDelay ==
  \A t \in Threads : \A k \in 1..Len(rs[t].delays) :
    rs[t].delays[k] <= mgr.max_delay * 1000

\* C31, amended: with jitter off every delay is at most max_delay; with
\* jitter on the factor 1 + u is applied after the cap, so every delay is
\* at most 1.2 * max_delay (and may exceed max_delay), at every attempt
\* number.
C31_DelayAtMostJitteredMax ==
  \A t \in Threads : \A k \in 1..Len(rs[t].delays) :
    rs[t].delays[k] <= mgr.max_delay * (IF mgr.jitter THEN 1200 ELSE 1000)

\* with jitter on, a capped delay of 300 ms has been stretched to 360 ms
C31_Witness ==
  \E t \in Threads :
    /\ mgr.jitter /\ mgr.max_delay = 300 /\ Len(rs[t].delays) >= 3
    /\ rs[t].delays[3] = 360000

(***************************************************************************)
(* CacheManager() constructed by several threads that then use the cache   *)
(***************************************************************************)
RaceKeys == {"k1"}
RaceValues == {"v1"}
RaceTTLs == {<<>>, <<-1>>}

\* the clock runs to the end of the first time.sleep(60) of a cleanup
\* thread started at second 0, in steps of a minute
MaxRaceTime == SWEEP_INTERVAL
RaceSteps == {SWEEP_INTERVAL}

\* d seconds pass
Elapse(d) ==
  /\ now + d <= MaxRaceTime
  /\ now' = now + d
  /\ UNCHANGED <<cache, order, lock, default_ttl, sweepVars, pc, ret, lastSet, gone, retryVars, wrapVars, lastEnd, klass, timer, iter, locals>>

\* the importing thread constructs CacheManager() (line 249); from then on
\* the threads construct CacheManager() again and, through the object, call
\* get, set, delete, clear and get_stats, while the cleanup thread sleeps
\* and makes its pass
NextRace ==
  \/ \E d \in RaceSteps : Elapse(d)
  \/ \E t \in Threads : CanConstruct(t) /\ New(t)
  \/ \E t \in Threads : InitCheck(t)
  \/ \E t \in Threads : InitCacheField(t)
  \/ \E t \in Threads : InitLock(t)
  \/ \E t \in Threads, env_ttl \in EnvCacheTTLs : InitTTL(t, env_ttl)
  \/ \E t \in Threads : InitThread(t)
  \/ \E t \in Threads : InitRunning(t)
  \/ \E t \in Threads : StartRunning(t)
  \/ \E t \in Threads : StartThread(t)
  \/ \E t \in Threads : StartStart(t)
  \/ \E t \in Threads : InitFlag(t)
  \/ \E t \in Threads : Imported /\ Enter(t)
  \/ \E t \in Threads, k \in RaceKeys : GetTest(t, k)
  \/ \E t \in Threads : GetItem(t)
  \/ \E t \in Threads : GetExpired(t)
  \/ \E t \in Threads : GetDel(t)
  \/ \E t \in Threads, k \in RaceKeys, v \in RaceValues, ttl \in RaceTTLs : Set(t, k, v, ttl)
  \/ \E t \in Threads, k \in RaceKeys : DeleteTest(t, k)
  \/ \E t \in Threads : DeleteDel(t)
  \/ \E t \in Threads : Clear(t)
  \/ \E t \in Threads : Imported /\ StatsEnter(t)
  \/ \E t \in Threads : StatsCount(t)
  \/ \E t \in Threads : GetStats(t)
  \/ \E s \in Sweepers : SweepLoop(s)
  \/ \E s \in Sweepers : SweepAcquire(s)
  \/ \E s \in Sweepers : SweepScan(s)
  \/ \E s \in Sweepers : SweepRemove(s)
  \/ \E s \in Sweepers : SweepRelease(s)

SpecRace == InitClass /\ [][NextRace]_vars

\* the threads inside a `with self._lock:` block: of get, set, delete,
\* clear and get_stats, and of cleanup
InCriticalSection ==
  {t \in Threads : pc[t] \in {"get", "get_item", "get_expired", "get_del", "set",
                              "delete", "delete_del", "clear", "get_stats"}}
    \cup {s \in Sweepers : sweepPc[s] \in {"scan", "remove"}}

\* the steps of thread t's __init__ that assign _cache and _lock
InitCacheStep(t) == pc[t] = "init_cache" /\ pc'[t] # pc[t]
InitLockStep(t) == pc[t] = "init_lock" /\ pc'[t] # pc[t]

\* a set has completed and neither delete nor clear has undone it
SetCompleted == \E k \in DOMAIN lastSet : lastSet[k].live

\* C32: the entry map and its lock are created once, by the first
\* construction, and never replaced, also when several threads construct
\* CacheManager() while others use the cache: _cache and _lock are
\* assigned before any set has completed and while no thread is in a
\* critical section, no step of a construction after the first changes
\* the map or the holder of the lock, and at most one thread is inside a
\* critical section (the thread that holds the lock) at a time.
C32_OneMapOneLock ==
  /\ [][\A t \in Threads :
          /\ InitCacheStep(t) => (~Imported /\ ~SetCompleted /\ cache = EmptyDict)
          /\ InitLockStep(t) => (~Imported /\ lock = NoThread /\ InCriticalSection = {})
          /\ (Imported /\ ConstructionStep(t))
               => UNCHANGED <<cache, order, lock, lastSet, klass>>]_vars
  /\ [](Imported => \A t \in Threads : pc[t] \notin InitBody)
  /\ [](Cardinality(InCriticalSection) <= 1)
  /\ [](\A x \in InCriticalSection : lock = x)

\* t2 is inside CacheManager(), between __new__ and the test of
\* _initialized, while t1 is in the critical section of a get and the map
\* holds the entry of a completed set
C32_Witness ==
  /\ pc["t2"] = "init" /\ pc["t1"] = "get_item" /\ lock = "t1"
  /\ "k1" \in DOMAIN cache /\ lastSet["k1"].live

(***************************************************************************)
(* Entries with ttl 1, 2 and the default, read, swept and counted          *)
(***************************************************************************)
ExpiryValues == {"v1"}
ExpiryTTLs == {<<>>, <<1>>, <<2>>}

\* the callers use the cache while the cleanup thread, its sleep over,
\* makes a pass
NextExpiry ==
  \/ Tick
  \/ \E t \in Threads : Enter(t)
  \/ \E t \in Threads, k \in RawKeys : Get(t, k)
  \/ \E t \in Threads, k \in RawKeys, v \in ExpiryValues, ttl \in ExpiryTTLs : Set(t, k, v, ttl)
  \/ \E t \in Threads, k \in RawKeys : Delete(t, k)
  \/ \E t \in Threads : Clear(t)
  \/ \E t \in Threads : StatsEnter(t)
  \/ \E t \in Threads : StatsCount(t)
  \/ \E t \in Threads : GetStats(t)
  \/ SweepLoop(Sweeper)
  \/ SweepAcquire(Sweeper)
  \/ SweepScan(Sweeper)
  \/ SweepRemove(Sweeper)
  \/ SweepRelease(Sweeper)

SpecExpiry == InitWoken /\ [][NextExpiry]_vars

\* a get of a key whose last set (at time t with ttl T, not deleted or
\* cleared since) returns the value up to t + T and absent after it
GetByExpiry ==
  \A t \in Threads :
    GetStep(t) =>
      LET K == ret'.key IN
        lastSet[K].live =>
          /\ now <= lastSet[K].at + LastTTL(K) => ret'.value = lastSet[K].value
          /\ now > lastSet[K].at + LastTTL(K) => ret'.value = None

\* the entry of a key keeps its expiry for as long as no set replaces it
ExpiryKept ==
  \A k \in DOMAIN cache :
    (k \in DOMAIN cache' /\ lastSet'[k] = lastSet[k])
      => cache'[k].expiry = cache[k].expiry

\* C33: an entry set at time t with ttl T is expired exactly when
\* now > t + T: a get at any time up to t + T, t + T itself included,
\* returns the value and a get later than t + T returns absent; the expiry
\* is created_at + ttl from the creation of the entry and never changes.
C33_StrictExpiry ==
  /\ [][GetByExpiry /\ ExpiryKept]_vars
  /\ [](\A k \in DOMAIN cache :
          /\ cache[k].expiry = lastSet[k].at + LastTTL(k)
          /\ is_expired(cache[k], now) <=> now > lastSet[k].at + LastTTL(k))

\* a get at exactly t + T, T = 2, has returned the value
C33_Witness ==
  /\ ret.kind = "get" /\ ret.note = "hit"
  /\ lastSet[ret.key].live /\ lastSet[ret.key].ttl = <<2>>
  /\ now = lastSet[ret.key].at + 2
  /\ ret.value = lastSet[ret.key].value

(***************************************************************************)
(* One key set again and again with other values and ttls                  *)
(***************************************************************************)
OverwriteKeys == {"k1"}
OverwriteValues == {"v1", "v2"}
OverwriteTTLs == {<<>>, <<-1>>, <<1>>, <<2>>}

\* the clock stays below SWEEP_INTERVAL: the cleanup thread is asleep
NextOverwrite ==
  \/ Tick
  \/ \E t \in Threads : Enter(t)
  \/ \E t \in Threads, k \in OverwriteKeys : Get(t, k)
  \/ \E t \in Threads, k \in OverwriteKeys, v \in OverwriteValues, ttl \in OverwriteTTLs : Set(t, k, v, ttl)
  \/ \E t \in Threads, k \in OverwriteKeys : Delete(t, k)
  \/ \E t \in Threads : Clear(t)

SpecOverwrite == InitCache /\ [][NextOverwrite]_vars

\* the step in which thread t's set returns (key in ret', arguments in
\* lastSet')
SetStep(t) == pc[t] = "set" /\ pc'[t] = "idle"

\* C34: a set(K,V2,T2) at time t on a key that holds an entry leaves V2
\* expiring at t + T2 (T2 the default when none is given), whatever the
\* ttl and the remaining lifetime of the old entry, longer or shorter; the
\* old expiry is neither kept nor added; and the gets that follow go by
\* t + T2.
C34_SetReplacesExpiry ==
  [][\A t \in Threads :
       /\ SetStep(t) =>
            LET K == ret'.key IN
              /\ lastSet'[K].at = now
              /\ cache'[K] = [value |-> lastSet'[K].value,
                              expiry |-> now + SetTTL(lastSet'[K].ttl, default_ttl)]
       /\ GetStep(t) =>
            LET K == ret'.key IN
              lastSet[K].live =>
                ret'.value = (IF now > lastSet[K].at + LastTTL(K)
                                THEN None ELSE lastSet[K].value)]_vars

\* a set of v2 with ttl 1 at second 1 has just replaced an entry of k1
\* that had longer to live (it was to expire later than second 2): k1
\* holds v2 and expires at 2
C34_Witness ==
  /\ ret.kind = "set" /\ ret.key = "k1" /\ ret.note = "shorter"
  /\ lastSet["k1"] = [value |-> "v2", ttl |-> <<1>>, at |-> 1, live |-> TRUE]
  /\ "k1" \in DOMAIN cache /\ cache["k1"] = [value |-> "v2", expiry |-> 2]

\* a set of v2 with ttl 2 at second 1 has just replaced an entry of k1
\* that had less to live (it had expired, or was to expire before second
\* 3): k1 holds v2 and expires at 3
C34_WitnessLonger ==
  /\ ret.kind = "set" /\ ret.key = "k1" /\ ret.note = "longer"
  /\ lastSet["k1"] = [value |-> "v2", ttl |-> <<2>>, at |-> 1, live |-> TRUE]
  /\ "k1" \in DOMAIN cache /\ cache["k1"] = [value |-> "v2", expiry |-> 3]

\* a get at second 3 has returned absent for k1, whose last set, of v2
\* with ttl 1 at second 1, left it expiring at 2 (an entry set with the
\* default ttl or with ttl 2 at second 1 would still be served)
C34_WitnessGet ==
  /\ ret.kind = "get" /\ ret.key = "k1" /\ ret.note = "expired" /\ now = 3
  /\ lastSet["k1"] = [value |-> "v2", ttl |-> <<1>>, at |-> 1, live |-> TRUE]

(***************************************************************************)
(* One cleanup pass                                                        *)
(***************************************************************************)
\* the steps of a pass of the first cleanup thread: a turn of the scan, the
\* end of the scan, a removal, the end of the pass
ScanStep == sweepPc[Sweeper] = "scan" /\ sweepPc'[Sweeper] = "scan" /\ iter' # iter
ScanEndStep == sweepPc[Sweeper] = "scan" /\ sweepPc'[Sweeper] = "remove"
RemoveStep == sweepPc[Sweeper] = "remove" /\ sweepPc'[Sweeper] = "remove"
PassEndStep == sweepPc[Sweeper] = "remove" /\ sweepPc'[Sweeper] # "remove"

\* the map d without the entry of k, the other entries as they are
Without(d, k) == [x \in DOMAIN d \ {k} |-> d[x]]

\* the keys the scan of the first cleanup thread has tested and not listed
Passed ==
  IF sweepPc[Sweeper] = "scan"
    THEN {order[j] : j \in 1..iter[Sweeper].i} \ expired_keys[Sweeper]
    ELSE (DOMAIN cache) \ expired_keys[Sweeper]

\* C35, as stated: one cleanup pass removes every entry that is expired at
\* the time of the pass and no other: the list the scan ends with is that
\* of the entries expired at one time of the pass.
C35_PassRemovesExpiredAtOneTime ==
  [][ScanEndStep =>
       \E tau \in timer.begun[Sweeper]..now :
         expired_keys[Sweeper] = ExpiredKeys(cache, tau)]_vars

\* C35, amended: one cleanup pass removes every entry that was expired
\* when the pass took the lock, and only entries that are expired when it
\* tests them (an entry that expires during the scan is removed or kept):
\* a turn of the scan lists the item it tests exactly if that is expired,
\* every entry listed is expired, every entry tested and not listed was
\* not expired when the pass began, every step of the pass after the scan
\* removes one listed entry and leaves the rest of the map as it is (value
\* and expiry), the pass ends only when every listed entry is removed, and
\* nothing else changes the map during the pass.
C35_PassRemovesExpiredOnly ==
  /\ [][/\ ScanStep =>
             /\ \E k \in DOMAIN cache :
                  /\ k = order[iter[Sweeper].i + 1]
                  /\ expired_keys'[Sweeper] =
                       IF now > cache[k].expiry THEN expired_keys[Sweeper] \cup {k}
                       ELSE expired_keys[Sweeper]
             /\ cache' = cache
        /\ ScanEndStep =>
             /\ iter[Sweeper].i = Cardinality(DOMAIN cache)
             /\ expired_keys' = expired_keys /\ cache' = cache
        /\ RemoveStep =>
             \/ cache' = cache
             \/ \E k \in expired_keys[Sweeper] :
                  /\ k \in DOMAIN cache /\ now > cache[k].expiry
                  /\ cache' = Without(cache, k)
                  /\ expired_keys'[Sweeper] = expired_keys[Sweeper] \ {k}
        /\ PassEndStep => (expired_keys[Sweeper] = {} /\ cache' = cache)]_vars
  /\ [](sweepPc[Sweeper] \in {"scan", "remove"} =>
          /\ expired_keys[Sweeper] \subseteq DOMAIN cache
          /\ \A k \in expired_keys[Sweeper] : now > cache[k].expiry
          /\ \A k \in Passed : cache[k].expiry >= timer.begun[Sweeper])

\* a pass that took the lock at second 1 has tested k1 at second 1 and k2
\* at second 2, both set at second 0 with ttl 1: it has listed k2 alone
C35_Witness ==
  /\ sweepPc[Sweeper] = "remove" /\ expired_keys[Sweeper] = {"k2"} /\ lock = Sweeper
  /\ timer.begun[Sweeper] = 1 /\ now = 2
  /\ lastSet["k1"] = [value |-> "v1", ttl |-> <<1>>, at |-> 0, live |-> TRUE]
  /\ lastSet["k2"] = [value |-> "v1", ttl |-> <<1>>, at |-> 0, live |-> TRUE]
  /\ DOMAIN cache = {"k1", "k2"}

(***************************************************************************)
(* Reads leave the entries as they are                                     *)
(***************************************************************************)
\* C36: reads neither refresh nor alter entries: a get(K) that returns a
\* value leaves the whole map as it is (same value and same expiry for
\* K), a get(K) that finds K expired or missing changes no entry of any
\* other key (it removes at most the entry of K), and get_stats() changes
\* nothing of the cache.
C36_ReadsChangeNothing ==
  [][\A t \in Threads :
       /\ (GetStep(t) /\ ret'.value # None) => cache' = cache
       /\ (GetStep(t) /\ ret'.value = None) =>
            /\ DOMAIN cache \ {ret'.key} \subseteq DOMAIN cache'
            /\ DOMAIN cache' \subseteq DOMAIN cache
            /\ \A k \in DOMAIN cache' : cache'[k] = cache[k]
       /\ pc[t] = "get_stats" =>
            (cache' = cache /\ order' = order /\ default_ttl' = default_ttl)]_vars

\* a get of k1 at second 1 has returned the value of an entry set at
\* second 0 with ttl 2, which still expires at 2, k2 being in the map too
C36_Witness ==
  /\ ret.kind = "get" /\ ret.key = "k1" /\ ret.note = "hit" /\ now = 1
  /\ lastSet["k1"] = [value |-> "v1", ttl |-> <<2>>, at |-> 0, live |-> TRUE]
  /\ "k1" \in DOMAIN cache /\ cache["k1"] = [value |-> "v1", expiry |-> 2]
  /\ "k2" \in DOMAIN cache

\* get_stats has returned, counting an expired entry that it left in the map
C36_WitnessStats ==
  /\ ret.kind = "get_stats" /\ ret.stats.expired_items = 1
  /\ \E k \in DOMAIN cache : is_expired(cache[k], now)

(***************************************************************************)
(* The counts of get_stats                                                 *)
(***************************************************************************)
\* a thread is inside the `with` block of get_stats
InGetStats == \E t \in Threads : pc[t] = "get_stats"

\* C37: get_stats() reports counts that are those of one instant, no
\* mutation of the map coming between its entry into the lock and its
\* return: total_items is the number of entries in the map, the expired
\* ones not yet evicted included, expired_items the number of those with
\* now > expiry at that instant, and active_items = total_items -
\* expired_items >= 0.
C37_StatsSnapshot ==
  [][/\ InGetStats => cache' = cache
     /\ \A t \in Threads :
          StatsStep(t) =>
            /\ ret'.stats.total_items = Cardinality(DOMAIN cache)
            /\ \E tau \in 0..now :
                 ret'.stats.expired_items = Cardinality(ExpiredKeys(cache, tau))
            /\ ret'.stats.active_items =
                 ret'.stats.total_items - ret'.stats.expired_items
            /\ ret'.stats.active_items >= 0
            /\ ret'.stats.default_ttl = default_ttl]_vars

(***************************************************************************)
(* retry() comes to an end                                                 *)
(***************************************************************************)
\* an invocation of the operation terminates and time.sleep returns
SpecRetryLive ==
  /\ InitRetry /\ [][NextRetry]_vars
  /\ WF_vars(\E o \in Outcomes(OpValues, ExcClasses), u \in JitterChoices :
               RetryLoop(RetryCaller, o, u))
  /\ WF_vars(RetryWake(RetryCaller))

\* thread t is inside retry()
InRetry(t) == pc[t] \in {"retry", "sleep"}

\* the call of thread t has ended in one of the three ways
ThreeOutcomes(t) ==
  \/ /\ rs[t].result.kind = "return"
     /\ rs[t].last.kind = "return" /\ rs[t].result.value = rs[t].last.value
  \/ /\ rs[t].result.kind = "raise" /\ rs[t].result.exc.cls # "RetryError"
     /\ rs[t].result.exc = Exc(rs[t].last.cls, rs[t].calls)
     /\ ~IsRetryableClass(rs[t].last.cls)
  \/ /\ RaisedRetryError(t)
     /\ rs[t].calls = MaxRetries + 1 /\ IsRetryableClass(rs[t].last.cls)

\* the bounds of a call with max_retries >= 0
RetryBounded(t) ==
  MaxRetries >= 0 =>
    /\ rs[t].calls <= MaxRetries + 1
    /\ Len(rs[t].delays) <= MaxRetries
    /\ rs[t].result.kind # "none" => ThreeOutcomes(t)

\* C38: for every max_retries >= 0, the invocations of the operation
\* terminating, retry() terminates, after at most max_retries + 1
\* invocations and at most max_retries delays, in exactly one of three
\* ways: the value the operation returned, the operation's own
\* non-retryable error, or RetryError.
C38_RetryTerminates ==
  /\ [](\A t \in Threads : RetryBounded(t))
  /\ \A t \in Threads :
       (MaxRetries >= 0 /\ InRetry(t)) ~> (pc[t] = "idle" /\ rs[t].result.kind # "none")

(***************************************************************************)
(* supabase_client.py: SupabaseClient.get_user and clear_cache             *)
(***************************************************************************)
\* what self.supabase.table(...).select("*").eq("id", user_id).execute()
\* does: a row, no row, or an error
QueryValues == {"row", "no_rows"}
QueryExcClasses == {"ConnectionError"}

\* the dicts get_user returns
UserFound == "success:user"
UserNotFound == "failure:User not found"
QueryFailed(cls) == "failure:" \o cls

\* the body of get_user: `except Exception as e` turns every error of the
\* query into a returned dict, so the body never raises
GetUser(q) ==
  [kind |-> "return",
   value |-> IF q.kind = "raise" THEN QueryFailed(q.cls)
             ELSE IF q.value = "no_rows" THEN UserNotFound ELSE UserFound,
   cls |-> "None"]

\* clear_cache(): self._cache = {} and self._cache_ttl = {}, two dicts of
\* the client itself, under the client's own lock; the map of CacheManager
\* is not touched
ClientClearCache(t) ==
  /\ pc[t] = "idle"
  /\ ret' = [kind |-> "clear_cache", key |-> None, value |-> None, note |-> "clear_cache"]
  /\ UNCHANGED <<now, cache, order, lock, default_ttl, sweepVars, pc, lastSet, gone, retryVars, wrapVars, lastEnd, klass, timer, iter, locals>>

\* @cached(ttl=300) @with_retry(max_retries=3, retry_delay=1000)
GetUserTTLs == {<<300>>}
GetUserMaxRetries == <<3>>
GetUserRetryDelay == <<1000>>

InitGetUser == InitCachedWith({<<"get_user">>}, GetUserTTLs, GetUserMaxRetries, GetUserRetryDelay)

\* one caller of get_user and clear_cache during the first seconds, the
\* cleanup thread being in its first sleep
NextGetUser ==
  \/ Tick
  \/ \E a \in WArgLists : WCall(WCaller, a, <<>>)
  \/ WGetEnter(WCaller)
  \/ WGet(WCaller)
  \/ \E q \in Outcomes(QueryValues, QueryExcClasses), u \in JitterChoices :
       RetryLoop(WCaller, GetUser(q), u)
  \/ WSetEnter(WCaller)
  \/ WSet(WCaller)
  \/ WReturn(WCaller)
  \/ ClientClearCache(WCaller)

SpecGetUser == InitGetUser /\ [][NextGetUser]_vars

\* the body of get_user has run in thread t's call and its query failed
\* with a transient error
QueryFailedTransient(t) ==
  /\ w[t].active /\ rs[t].calls >= 1
  /\ rs[t].last.value = QueryFailed("ConnectionError")

\* C39: for get_user, cached(ttl=300) over with_retry(max_retries=3), a
\* transient failure (ConnectionError) of the query is retried by the
\* retry layer (the call goes on to a delay and another invocation, up to
\* 3 retries), and a failed lookup is not stored: the cache holds and
\* serves results of successful queries only.
C39_FailuresRetriedNotCached ==
  /\ \A t \in Threads :
       (QueryFailedTransient(t) /\ rs[t].calls <= 3)
         => (pc[t] \in {"retry", "sleep"} /\ rs[t].result.kind = "none")
  /\ \A k \in DOMAIN cache : cache[k].value # QueryFailed("ConnectionError")

\* the part that holds: what the wrapper stores and serves is what the
\* body of get_user returned
C39_BodyResultCached ==
  \A k \in DOMAIN cache : cache[k].value \in {UserFound, UserNotFound, QueryFailed("ConnectionError")}

\* C40: clear_cache() invalidates the results stored by @cached: the next
\* get_user call with arguments used before misses and invokes the
\* underlying operation again.
C40_ClearCacheInvalidates ==
  [][\A t \in Threads :
       (WGetStep(t) /\ ret.kind = "clear_cache") => pc'[t] = "retry"]_vars

\* the part that holds: clear_cache leaves the map of CacheManager as it is
C40_ClearCacheLeavesMap ==
  [][ret'.kind = "clear_cache" => cache' = cache]_vars

====
